---------------------------- MODULE Spec2Model ----------------------------
(***************************************************************************)
(* Paperkeep backup / restore: the password cipher, the archive writer     *)
(* (ExportService.exportData) and the archive reader                       *)
(* (ImportService.importData) over the receipt store.                      *)
(*                                                                         *)
(* Text is modelled as a sequence of UTF-16 code units (naturals), as a    *)
(* JavaScript string is.  An optional value is a sequence of length 0 or 1.*)
(***************************************************************************)
EXTENDS Naturals, Integers, Sequences, FiniteSets, TLC

(***************************************************************************)
(* Bounds of the model.                                                    *)
(***************************************************************************)
\* longest plaintext handed to the cipher on its own
MaxPlainLen == 3
\* rounds of the iterated hash (the source runs 10000, the model a few)
HashRounds == 3
\* successive exports of one store with one password
MaxExports == 3
\* calls of OperationLock.withLock in one behaviour
MaxLockCalls == 3
\* calls of ImageStorage in one behaviour
MaxImageCalls == 3
\* calls of SecureKeyManager in one behaviour
MaxKeyCalls == 3

(***************************************************************************)
(* Program constants.                                                      *)
(***************************************************************************)
\* deriveKey: keyLength = 32 bytes, i.e. 64 hex digits
keyLength == 32

(***************************************************************************)
(* Small helpers.                                                          *)
(***************************************************************************)
Min(a, b) == IF a < b THEN a ELSE b

RECURSIVE Xor(_, _)
\* JavaScript's a ^ b on non-negative integers
Xor(a, b) ==
  IF a = 0 THEN b
  ELSE IF b = 0 THEN a
  ELSE (((a % 2) + (b % 2)) % 2) + (2 * Xor(a \div 2, b \div 2))

\* one lowercase hex digit as a code unit: '0'..'9' = 48..57, 'a'..'f' = 97..102
HexDigit(n) == IF n < 10 THEN 48 + n ELSE 87 + n

RECURSIVE HashFold(_, _, _)
HashFold(s, i, h) ==
  IF i > Len(s) THEN h ELSE HashFold(s, i + 1, ((h * 33) + s[i]) % 65536)

\* Crypto.digestStringAsync(SHA256, data): a deterministic digest printed in
\* lowercase hex.  The model's digest is a 16-bit one (4 hex digits).
Digest(data) ==
  LET h == HashFold(data, 1, 5381)
  IN  << HexDigit(h \div 4096), HexDigit((h \div 256) % 16),
         HexDigit((h \div 16) % 16), HexDigit(h % 16) >>

RECURSIVE Rehash(_, _)
Rehash(hash, rounds) ==
  IF rounds = 0 THEN hash ELSE Rehash(Digest(hash), rounds - 1)

\* deriveKey(masterKey, salt): hash masterKey + salt, rehash, keep the first
\* keyLength * 2 hex digits
deriveKey(masterKey, salt) ==
  LET hash == Rehash(Digest(masterKey \o salt), HashRounds - 1)
  IN  SubSeq(hash, 1, Min(Len(hash), keyLength * 2))

\* xorEncrypt(text, key): code unit i is text[i] ^ key[i % key.length]
xorEncrypt(text, key) ==
  [i \in 1..Len(text) |-> Xor(text[i], key[((i - 1) % Len(key)) + 1])]

\* Buffer.from(s, 'binary'): each code unit keeps its low 8 bits only
BinaryBytes(s) == [i \in 1..Len(s) |-> s[i] % 256]

\* the base64 digits (0..63, with 64 for the padding '=') of a byte sequence:
\* three bytes give four digits
Base64Digit(b, k) ==
  LET g == 3 * ((k - 1) \div 4)
      j == (k - 1) % 4
      n == Len(b)
      b0 == b[g + 1]
      b1 == IF g + 2 <= n THEN b[g + 2] ELSE 0
      b2 == IF g + 3 <= n THEN b[g + 3] ELSE 0
  IN  CASE j = 0 -> b0 \div 4
        [] j = 1 -> ((b0 % 4) * 16) + (b1 \div 16)
        [] j = 2 -> IF g + 2 > n THEN 64 ELSE ((b1 % 16) * 4) + (b2 \div 64)
        [] j = 3 -> IF g + 3 > n THEN 64 ELSE b2 % 64

\* Buffer.from(s, 'binary').toString('base64')
ToBase64(s) ==
  LET b == BinaryBytes(s)
  IN  [k \in 1..(4 * ((Len(b) + 2) \div 3)) |-> Base64Digit(b, k)]

\* the bytes of base64 digits: four digits give three bytes, fewer with padding
Base64Byte(d, k) ==
  LET g == 4 * ((k - 1) \div 3)
      j == (k - 1) % 3
  IN  CASE j = 0 -> (d[g + 1] * 4) + (d[g + 2] \div 16)
        [] j = 1 -> ((d[g + 2] % 16) * 16) + (d[g + 3] \div 4)
        [] j = 2 -> ((d[g + 3] % 4) * 64) + d[g + 4]

\* Buffer.from(b64, 'base64').toString('binary')
FromBase64(d) ==
  LET n == 4 * (Len(d) \div 4)
      pad == IF n = 0 THEN 0
             ELSE IF d[n - 1] = 64 THEN 2 ELSE IF d[n] = 64 THEN 1 ELSE 0
  IN  [k \in 1..((3 * (n \div 4)) - pad) |-> Base64Byte(d, k)]

\* encryption as encryptData does it (lines 69-95): with the key derived from
\* the master key and the salt of the device (the text "0" for both)
encryptDataWithDeviceKey(data, password, salt) ==
  [encrypted |-> ToBase64(xorEncrypt(data, deriveKey(<< 48 >>, << 48 >>))),
   salt |-> salt]

\* encryptDataWithPassword(data, password), with the salt it generated
encryptDataWithPassword(data, password, salt) ==
  [encrypted |-> ToBase64(xorEncrypt(data, deriveKey(password, salt))),
   salt |-> salt]

\* decryptDataWithPassword(encryptedBase64, password, salt)
decryptDataWithPassword(encryptedBase64, password, salt) ==
  xorEncrypt(FromBase64(encryptedBase64), deriveKey(password, salt))

(***************************************************************************)
(* JSON.  A JSON value is [t |-> kind, v |-> payload]:                      *)
(*   "null": v = << >>          "num": v = << n >>    "str": v = text       *)
(*   "arr":  v = the elements   "obj": v = the members << key, value >>     *)
(***************************************************************************)
JNull == [t |-> "null", v |-> << >>]
JNum(n) == [t |-> "num", v |-> << n >>]
JStr(s) == [t |-> "str", v |-> s]
JArr(e) == [t |-> "arr", v |-> e]
JObj(m) == [t |-> "obj", v |-> m]

RECURSIVE Digits(_)
\* String(n) for a non-negative integer
Digits(n) == IF n < 10 THEN << 48 + n >> ELSE Digits(n \div 10) \o << 48 + (n % 10) >>

\* the line break and indentation JSON.stringify(value, null, ind) writes
\* before an entry at nesting depth d; nothing when ind = 0 (no third argument)
Break(ind, d) == IF ind = 0 THEN << >> ELSE << 10 >> \o [i \in 1..(ind * d) |-> 32]

RECURSIVE Quote(_, _)
\* the body of a quoted string from position i: '"' and '\' get a backslash
Quote(s, i) ==
  IF i > Len(s) THEN << >>
  ELSE (IF s[i] \in {34, 92} THEN << 92, s[i] >> ELSE << s[i] >>) \o Quote(s, i + 1)

RECURSIVE Stringify(_, _, _)
RECURSIVE StringifyItems(_, _, _, _)
RECURSIVE StringifyMembers(_, _, _, _)
\* JSON.stringify(j, null, ind) of a value nested d levels deep
Stringify(j, ind, d) ==
  CASE j.t = "null" -> << 110, 117, 108, 108 >>
    [] j.t = "num" -> Digits(j.v[1])
    [] j.t = "str" -> << 34 >> \o Quote(j.v, 1) \o << 34 >>
    [] j.t = "arr" ->
         IF j.v = << >> THEN << 91, 93 >>
         ELSE << 91 >> \o StringifyItems(j.v, 1, ind, d + 1)
              \o Break(ind, d) \o << 93 >>
    [] j.t = "obj" ->
         IF j.v = << >> THEN << 123, 125 >>
         ELSE << 123 >> \o StringifyMembers(j.v, 1, ind, d + 1)
              \o Break(ind, d) \o << 125 >>

StringifyItems(e, i, ind, d) ==
  Break(ind, d) \o Stringify(e[i], ind, d)
  \o (IF i = Len(e) THEN << >> ELSE << 44 >> \o StringifyItems(e, i + 1, ind, d))

StringifyMembers(m, i, ind, d) ==
  Break(ind, d) \o << 34 >> \o Quote(m[i][1], 1) \o << 34, 58 >>
  \o (IF ind = 0 THEN << >> ELSE << 32 >>)
  \o Stringify(m[i][2], ind, d)
  \o (IF i = Len(m) THEN << >> ELSE << 44 >> \o StringifyMembers(m, i + 1, ind, d))

\* a parse step: the value read and the position after it, or a syntax error
ParseFail == [ok |-> FALSE, val |-> JNull, next |-> 0]
ParseOk(val, next) == [ok |-> TRUE, val |-> val, next |-> next]

RECURSIVE SkipSpace(_, _)
\* JSON white space: space, tab, line feed, carriage return
SkipSpace(s, i) ==
  IF i <= Len(s) /\ s[i] \in {32, 9, 10, 13} THEN SkipSpace(s, i + 1) ELSE i

RECURSIVE ParseString(_, _, _)
\* the rest of a string after its opening quote: up to the closing quote; a
\* control character or a backslash before anything but '"', '\', '/' is an error
ParseString(s, i, acc) ==
  IF i > Len(s) THEN ParseFail
  ELSE IF s[i] = 34 THEN ParseOk(JStr(acc), i + 1)
  ELSE IF s[i] < 32 THEN ParseFail
  ELSE IF s[i] = 92 THEN
    IF i + 1 <= Len(s) /\ s[i+1] \in {34, 92, 47}
    THEN ParseString(s, i + 2, Append(acc, s[i+1]))
    ELSE ParseFail
  ELSE ParseString(s, i + 1, Append(acc, s[i]))

RECURSIVE ParseNumber(_, _, _)
\* a run of decimal digits
ParseNumber(s, i, n) ==
  IF i <= Len(s) /\ s[i] \in 48..57
  THEN ParseNumber(s, i + 1, (n * 10) + (s[i] - 48))
  ELSE ParseOk(JNum(n), i)

RECURSIVE ParseValue(_, _)
RECURSIVE ParseItems(_, _, _)
RECURSIVE ParseMembers(_, _, _)
ParseValue(s, i0) ==
  LET i == SkipSpace(s, i0) IN
  IF i > Len(s) THEN ParseFail
  ELSE IF s[i] = 34 THEN ParseString(s, i + 1, << >>)
  ELSE IF s[i] \in 48..57 THEN
    \* a leading zero is a number of its own
    IF s[i] = 48 THEN ParseOk(JNum(0), i + 1) ELSE ParseNumber(s, i, 0)
  ELSE IF s[i] = 110 THEN
    IF i + 3 <= Len(s) /\ SubSeq(s, i, i + 3) = << 110, 117, 108, 108 >>
    THEN ParseOk(JNull, i + 4) ELSE ParseFail
  ELSE IF s[i] = 91 THEN
    LET j == SkipSpace(s, i + 1) IN
    IF j <= Len(s) /\ s[j] = 93 THEN ParseOk(JArr(<< >>), j + 1)
    ELSE ParseItems(s, i + 1, << >>)
  ELSE IF s[i] = 123 THEN
    LET j == SkipSpace(s, i + 1) IN
    IF j <= Len(s) /\ s[j] = 125 THEN ParseOk(JObj(<< >>), j + 1)
    ELSE ParseMembers(s, i + 1, << >>)
  ELSE ParseFail

\* the elements of an array after '[' or ',', up to ']'
ParseItems(s, i, acc) ==
  LET r == ParseValue(s, i) IN
  IF ~r.ok THEN ParseFail
  ELSE LET j == SkipSpace(s, r.next) IN
    IF j > Len(s) THEN ParseFail
    ELSE IF s[j] = 44 THEN ParseItems(s, j + 1, Append(acc, r.val))
    ELSE IF s[j] = 93 THEN ParseOk(JArr(Append(acc, r.val)), j + 1)
    ELSE ParseFail

\* the members of an object after '{' or ',', up to '}'
ParseMembers(s, i0, acc) ==
  LET i == SkipSpace(s, i0) IN
  IF i > Len(s) \/ s[i] # 34 THEN ParseFail
  ELSE LET k == ParseString(s, i + 1, << >>) IN
    IF ~k.ok THEN ParseFail
    ELSE LET c == SkipSpace(s, k.next) IN
      IF c > Len(s) \/ s[c] # 58 THEN ParseFail
      ELSE LET r == ParseValue(s, c + 1) IN
        IF ~r.ok THEN ParseFail
        ELSE LET j == SkipSpace(s, r.next)
                 more == Append(acc, << k.val.v, r.val >>) IN
          IF j > Len(s) THEN ParseFail
          ELSE IF s[j] = 44 THEN ParseMembers(s, j + 1, more)
          ELSE IF s[j] = 125 THEN ParseOk(JObj(more), j + 1)
          ELSE ParseFail

\* JSON.parse(text): one value and nothing but white space after it
JsonParse(text) ==
  LET r == ParseValue(text, 1) IN
  IF r.ok /\ SkipSpace(text, r.next) > Len(text) THEN r ELSE ParseFail

RECURSIVE Lookup(_, _, _)
\* obj[key] of a parsed object: the last member named key, << >> for undefined
Lookup(m, key, i) ==
  IF i = 0 THEN << >>
  ELSE IF m[i][1] = key THEN << m[i][2] >>
  ELSE Lookup(m, key, i - 1)

\* value.key in JavaScript for a JSON value that is not null: << >> (undefined)
\* unless the value is an object with that member
Prop(j, key) == IF j.t = "obj" THEN Lookup(j.v, key, Len(j.v)) ELSE << >>

(***************************************************************************)
(* Texts of the program.                                                   *)
(***************************************************************************)
KeyVersion == << 118, 101, 114, 115, 105, 111, 110 >>
KeyExportDate == << 101, 120, 112, 111, 114, 116, 68, 97, 116, 101 >>
KeyReceiptCount == << 114, 101, 99, 101, 105, 112, 116, 67, 111, 117, 110, 116 >>
KeyReceipts == << 114, 101, 99, 101, 105, 112, 116, 115 >>
KeyId == << 105, 100 >>
KeyStoreName == << 115, 116, 111, 114, 101, 78, 97, 109, 101 >>
KeyDate == << 100, 97, 116, 101 >>
KeyTotalAmount == << 116, 111, 116, 97, 108, 65, 109, 111, 117, 110, 116 >>
KeyTags == << 116, 97, 103, 115 >>
KeyNotes == << 110, 111, 116, 101, 115 >>
KeyOcrText == << 111, 99, 114, 84, 101, 120, 116 >>
KeyImageUri == << 105, 109, 97, 103, 101, 85, 114, 105 >>
KeyCreatedAt == << 99, 114, 101, 97, 116, 101, 100, 65, 116 >>
KeyUpdatedAt == << 117, 112, 100, 97, 116, 101, 100, 65, 116 >>
\* '1.0.0'
FormatVersion == << 49, 46, 48, 46, 48 >>
\* ImageStorage.imageDir: `${documentDirectory}receipts/`
imageDir == << 100, 111, 99, 47, 114, 101, 99, 101, 105, 112, 116, 115, 47 >>
\* the import staging directory: `${Paths.cache}/import_${Date.now()}/`
importTempDir == << 99, 97, 99, 104, 101, 47, 105, 109, 112, 111, 114, 116, 95, 55, 47 >>
\* 'images/'
ImagesDirName == << 105, 109, 97, 103, 101, 115, 47 >>
ExtJpg == << 46, 106, 112, 103 >>
ExtJpeg == << 46, 106, 112, 101, 103 >>
ExtPng == << 46, 112, 110, 103 >>
ExtGif == << 46, 103, 105, 102 >>
ExtWebp == << 46, 119, 101, 98, 112 >>

(***************************************************************************)
(* Dates.  A Date is its time value in milliseconds; NaN is the time value *)
(* of an Invalid Date.  The ISO-8601 text of a time value is modelled by   *)
(* its decimal digits followed by 'Z'.                                     *)
(***************************************************************************)
NaN == 0 - 1

\* date.toISOString()
toISOString(ms) == Digits(ms) \o << 90 >>

\* Date.parse(text): the time value, NaN for a text that is no ISO date
DateParse(text) ==
  LET n == Len(text)
      r == ParseNumber(text, 1, 0) IN
  IF n >= 2 /\ text[n] = 90 /\ r.next = n /\ (text[1] # 48 \/ n = 2)
  THEN r.val.v[1] ELSE NaN

\* new Date(x).getTime() for x = obj.key: undefined gives an Invalid Date,
\* null the epoch, a number itself, a string what Date.parse gives
NewDate(opt) ==
  IF opt = << >> THEN NaN
  ELSE CASE opt[1].t = "null" -> 0
         [] opt[1].t = "num" -> opt[1].v[1]
         [] opt[1].t = "str" -> DateParse(opt[1].v)
         [] OTHER -> NaN

\* JavaScript truthiness of obj.key
Truthy(opt) ==
  IF opt = << >> THEN FALSE
  ELSE CASE opt[1].t = "null" -> FALSE
         [] opt[1].t = "num" -> opt[1].v[1] # 0
         [] opt[1].t = "str" -> opt[1].v # << >>
         [] OTHER -> TRUE

\* obj.key is neither undefined nor null
Present(opt) == opt # << >> /\ opt[1].t # "null"

IsStr(opt) == opt # << >> /\ opt[1].t = "str"
IsNum(opt) == opt # << >> /\ opt[1].t = "num"
IsStrArr(opt) ==
  /\ opt # << >>
  /\ opt[1].t = "arr"
  /\ \A i \in 1..Len(opt[1].v) : opt[1].v[i].t = "str"

(***************************************************************************)
(* SQLiteStorage: the receipts table, a sequence of rows in insertion      *)
(* order with a unique id.  A row is                                       *)
(*   [id, storeName, date, totalAmount, tags, notes, ocrText, imageUri,    *)
(*    createdAt, updatedAt]                                                *)
(* with tags the JSON text of the tag list and notes << >> for NULL.       *)
(***************************************************************************)
RowIds(table) == {table[i].id : i \in 1..Len(table)}

RECURSIVE RowWithId(_, _, _)
\* SELECT * FROM receipts WHERE id = ?: << row >> or << >>
RowWithId(table, id, i) ==
  IF i > Len(table) THEN << >>
  ELSE IF table[i].id = id THEN << table[i] >>
  ELSE RowWithId(table, id, i + 1)

RECURSIVE InsertByDate(_, _)
\* row put into a list that is ordered by date, latest first, after its equals
InsertByDate(sorted, row) ==
  IF sorted = << >> THEN << row >>
  ELSE IF Head(sorted).date >= row.date
       THEN << Head(sorted) >> \o InsertByDate(Tail(sorted), row)
       ELSE << row >> \o sorted

RECURSIVE OrderByDateDesc(_, _, _)
OrderByDateDesc(table, i, acc) ==
  IF i > Len(table) THEN acc
  ELSE OrderByDateDesc(table, i + 1, InsertByDate(acc, table[i]))

\* SQLiteStorage.getAllReceipts: SELECT * FROM receipts ORDER BY date DESC
getAllReceipts(table) == OrderByDateDesc(table, 1, << >>)

\* the JavaScript receipt built from an archive entry (ImportService 99-104):
\* the entry's own members, with the three dates made Date objects
ReceiptOf(receiptData) ==
  [id |-> Prop(receiptData, KeyId),
   storeName |-> Prop(receiptData, KeyStoreName),
   date |-> NewDate(Prop(receiptData, KeyDate)),
   totalAmount |-> Prop(receiptData, KeyTotalAmount),
   tags |-> Prop(receiptData, KeyTags),
   notes |-> Prop(receiptData, KeyNotes),
   ocrText |-> Prop(receiptData, KeyOcrText),
   imageUri |-> Prop(receiptData, KeyImageUri),
   createdAt |-> NewDate(Prop(receiptData, KeyCreatedAt)),
   updatedAt |-> NewDate(Prop(receiptData, KeyUpdatedAt))]

\* StorageAdapter.validateReceipt does not throw (a Date object is truthy)
validateReceipt(receipt) ==
  /\ Truthy(receipt.id)
  /\ Truthy(receipt.storeName)
  /\ Present(receipt.totalAmount)
  /\ receipt.tags # << >> /\ receipt.tags[1].t = "arr"
  /\ Present(receipt.ocrText)
  /\ Truthy(receipt.imageUri)

\* the members have the types the Receipt interface declares; values of other
\* types are not among the model's inputs and count as a failed write
WellTyped(receipt) ==
  /\ IsStr(receipt.id) /\ IsStr(receipt.storeName) /\ IsNum(receipt.totalAmount)
  /\ IsStrArr(receipt.tags) /\ IsStr(receipt.ocrText) /\ IsStr(receipt.imageUri)
  /\ (Present(receipt.notes) => IsStr(receipt.notes))

\* the values saveReceipt binds to the INSERT: notes is receipt.notes || null
InsertRow(receipt) ==
  [id |-> receipt.id[1].v,
   storeName |-> receipt.storeName[1].v,
   date |-> receipt.date,
   totalAmount |-> receipt.totalAmount[1].v[1],
   tags |-> Stringify(receipt.tags[1], 0, 0),
   notes |-> IF Truthy(receipt.notes) THEN << receipt.notes[1].v >> ELSE << >>,
   ocrText |-> receipt.ocrText[1].v,
   imageUri |-> receipt.imageUri[1].v,
   createdAt |-> receipt.createdAt,
   updatedAt |-> receipt.updatedAt]

\* SQLiteStorage.saveReceipt succeeds: the receipt validates, no NOT NULL column
\* gets an Invalid Date's NaN, and the PRIMARY KEY id is not in the table yet
CanSave(table, receipt) ==
  /\ validateReceipt(receipt)
  /\ WellTyped(receipt)
  /\ receipt.date # NaN /\ receipt.createdAt # NaN /\ receipt.updatedAt # NaN
  /\ receipt.id[1].v \notin RowIds(table)

\* the table after a successful saveReceipt
saveReceipt(table, receipt) == Append(table, InsertRow(receipt))

\* SQLiteStorage.updateReceipt succeeds: no NOT NULL column is set to null or NaN
CanUpdate(updates) ==
  /\ (updates.storeName # << >> => IsStr(updates.storeName))
  /\ updates.date # NaN
  /\ (updates.totalAmount # << >> => IsNum(updates.totalAmount))
  /\ (updates.tags # << >> => IsStrArr(updates.tags))
  /\ (Present(updates.notes) => IsStr(updates.notes))
  /\ (updates.ocrText # << >> => IsStr(updates.ocrText))
  /\ (updates.imageUri # << >> => IsStr(updates.imageUri))

\* a variant of UpdatedRow that takes created_at from the updates as well
UpdatedRowWithCreatedAt(row, updates, now) ==
  [id |-> row.id,
   storeName |-> IF updates.storeName # << >> THEN updates.storeName[1].v
                 ELSE row.storeName,
   date |-> updates.date,
   totalAmount |-> IF updates.totalAmount # << >> THEN updates.totalAmount[1].v[1]
                   ELSE row.totalAmount,
   tags |-> IF updates.tags # << >> THEN Stringify(updates.tags[1], 0, 0)
            ELSE row.tags,
   notes |-> IF updates.notes = << >> THEN row.notes
             ELSE IF updates.notes[1].t = "null" THEN << >>
             ELSE << updates.notes[1].v >>,
   ocrText |-> IF updates.ocrText # << >> THEN updates.ocrText[1].v ELSE row.ocrText,
   imageUri |-> IF updates.imageUri # << >> THEN updates.imageUri[1].v
                ELSE row.imageUri,
   createdAt |-> updates.createdAt,
   updatedAt |-> now]

\* one row after UPDATE receipts SET ... : every member of updates that is not
\* undefined is written, created_at never, updated_at always with Date.now()
UpdatedRow(row, updates, now) ==
  [id |-> row.id,
   storeName |-> IF updates.storeName # << >> THEN updates.storeName[1].v
                 ELSE row.storeName,
   date |-> updates.date,
   totalAmount |-> IF updates.totalAmount # << >> THEN updates.totalAmount[1].v[1]
                   ELSE row.totalAmount,
   tags |-> IF updates.tags # << >> THEN Stringify(updates.tags[1], 0, 0)
            ELSE row.tags,
   notes |-> IF updates.notes = << >> THEN row.notes
             ELSE IF updates.notes[1].t = "null" THEN << >>
             ELSE << updates.notes[1].v >>,
   ocrText |-> IF updates.ocrText # << >> THEN updates.ocrText[1].v ELSE row.ocrText,
   imageUri |-> IF updates.imageUri # << >> THEN updates.imageUri[1].v
                ELSE row.imageUri,
   createdAt |-> row.createdAt,
   updatedAt |-> now]

\* the table after a successful updateReceipt(id, updates)
updateReceipt(table, id, updates, now) ==
  [i \in 1..Len(table) |->
     IF table[i].id = id THEN UpdatedRow(table[i], updates, now) ELSE table[i]]

RECURSIVE DeleteRow(_, _, _)
\* SQLiteStorage.deleteReceipt: DELETE FROM receipts WHERE id = ?
DeleteRow(table, id, i) ==
  IF i > Len(table) THEN << >>
  ELSE (IF table[i].id = id THEN << >> ELSE << table[i] >>) \o DeleteRow(table, id, i + 1)

(***************************************************************************)
(* ImageStorage: the files of imageDir, a set of [path, data].             *)
(***************************************************************************)
EndsWith(text, suffix) ==
  /\ Len(suffix) <= Len(text)
  /\ SubSeq(text, Len(text) - Len(suffix) + 1, Len(text)) = suffix

\* ImageStorage.getImageExtension: /\.(jpg|jpeg|png|gif|webp)$/i in lower
\* case, else '.jpg' (the uris of the model are in lower case)
getImageExtension(uri) ==
  IF EndsWith(uri, ExtJpg) THEN ExtJpg
  ELSE IF EndsWith(uri, ExtJpeg) THEN ExtJpeg
  ELSE IF EndsWith(uri, ExtPng) THEN ExtPng
  ELSE IF EndsWith(uri, ExtGif) THEN ExtGif
  ELSE IF EndsWith(uri, ExtWebp) THEN ExtWebp
  ELSE ExtJpg

Paths(files) == {f.path : f \in files}

\* the file at a path that exists
FileAt(files, path) == CHOOSE f \in files : f.path = path

\* the extensions getImage and deleteImage try, in order
LookupExtensions == << ExtJpg, ExtJpeg, ExtPng >>

RECURSIVE FirstImage(_, _, _)
FirstImage(files, receiptId, i) ==
  IF i > Len(LookupExtensions) THEN << >>
  ELSE IF (imageDir \o receiptId \o LookupExtensions[i]) \in Paths(files)
       THEN << imageDir \o receiptId \o LookupExtensions[i] >>
       ELSE FirstImage(files, receiptId, i + 1)

\* ImageStorage.getImage(receiptId): << uri >>, or << >> for null
getImage(files, receiptId) == FirstImage(files, receiptId, 1)

\* ImageStorage.deleteImage(receiptId): the files left
deleteImage(files, receiptId) ==
  {f \in files :
     \A i \in 1..Len(LookupExtensions) :
        f.path # imageDir \o receiptId \o LookupExtensions[i]}

\* the uri ImageStorage.saveImage(imageUri, receiptId) copies to and returns
saveImageUri(imageUri, receiptId) ==
  imageDir \o receiptId \o getImageExtension(imageUri)

\* the files after saveImage copied a source holding data
saveImage(files, imageUri, data, receiptId) ==
  {f \in files : f.path # saveImageUri(imageUri, receiptId)}
  \cup {[path |-> saveImageUri(imageUri, receiptId), data |-> data]}

(***************************************************************************)
(* Errors.  A thrown value is [app, message, code, recoverable,            *)
(* userMessage]; app tells an AppError from a plain Error.                 *)
(***************************************************************************)
PlainError(message) ==
  [app |-> FALSE, message |-> message, code |-> "", recoverable |-> FALSE,
   userMessage |-> ""]

AppError(message, code, recoverable, userMessage) ==
  [app |-> TRUE, message |-> message, code |-> code, recoverable |-> recoverable,
   userMessage |-> userMessage]

NoError == PlainError("")

\* what importData throws for an error caught at its top level (144-163): an
\* AppError as it is, anything else wrapped with its own message for the user
ImportRethrow(error) ==
  IF error.app THEN error
  ELSE AppError("Import failed", "EXPORT_CORRUPTED_DATA", TRUE, error.message)

\* a catch of exportData that wraps whatever it caught
ExportRethrowWrapped(error) ==
  AppError("Export failed", "EXPORT_INSUFFICIENT_STORAGE", TRUE,
           "Failed to export data. Please try again.")

\* what exportData throws for an error caught at its top level (86-105)
ExportRethrow(error) ==
  IF error.app THEN error
  ELSE AppError("Export failed", "EXPORT_INSUFFICIENT_STORAGE", TRUE,
                "Failed to export data. Please try again.")

(***************************************************************************)
(* The archive: [readable, salt, metadata, images].  salt and metadata are *)
(* << text >> or << >> when the entry is missing, images << files >> or    *)
(* << >> when there is no images directory; a staged file is [name, data]. *)
(* readable is FALSE for a file unzip rejects.                             *)
(***************************************************************************)
RECURSIVE LastDot(_, _)
LastDot(text, i) ==
  IF i = 0 THEN 0 ELSE IF text[i] = 46 THEN i ELSE LastDot(text, i - 1)

\* imageUri.split('.').pop() || 'jpg'
ExportExtension(imageUri) ==
  LET tail == SubSeq(imageUri, LastDot(imageUri, Len(imageUri)) + 1, Len(imageUri))
  IN  IF tail = << >> THEN << 106, 112, 103 >> ELSE tail

\* one entry of metadata.receipts (ExportService 40-45): the receipt read from
\* its row (mapRowToReceipt) with its three dates as ISO texts
ExportEntry(row) ==
  JObj(<< << KeyId, JStr(row.id) >>,
          << KeyStoreName, JStr(row.storeName) >>,
          << KeyDate, JStr(toISOString(row.date)) >>,
          << KeyTotalAmount, JNum(row.totalAmount) >>,
          << KeyTags, JsonParse(row.tags).val >>,
          << KeyNotes, IF row.notes = << >> THEN JNull ELSE JStr(row.notes[1]) >>,
          << KeyOcrText, JStr(row.ocrText) >>,
          << KeyImageUri, JStr(row.imageUri) >>,
          << KeyCreatedAt, JStr(toISOString(row.createdAt)) >>,
          << KeyUpdatedAt, JStr(toISOString(row.updatedAt)) >> >>)

\* the metadata object of an export (ExportService 36-46)
ExportMetadata(table, now) ==
  LET all == getAllReceipts(table) IN
  JObj(<< << KeyVersion, JStr(FormatVersion) >>,
          << KeyExportDate, JStr(toISOString(now)) >>,
          << KeyReceiptCount, JNum(Len(all)) >>,
          << KeyReceipts, JArr([i \in 1..Len(all) |-> ExportEntry(all[i])]) >> >>)

\* the files copied into the images directory (ExportService 64-73): for
\* every receipt whose image getImage finds, `${id}.${extension}`
ExportImages(table, files) ==
  {[name |-> table[i].id \o << 46 >> \o ExportExtension(getImage(files, table[i].id)[1]),
    data |-> FileAt(files, getImage(files, table[i].id)[1]).data]
     : i \in {k \in 1..Len(table) : getImage(files, table[k].id) # << >>}}

\* an archive whose salt.txt holds a salt other than the one of the key
ArchiveOfOtherSalt(text, staged, password, salt) ==
  LET e == encryptDataWithPassword(text, password, salt) IN
  [readable |-> TRUE, salt |-> << Digest(e.salt) >>, metadata |-> << e.encrypted >>,
   images |-> staged]

\* the archive holding a given metadata text, encrypted with password and salt
ArchiveOf(text, staged, password, salt) ==
  LET e == encryptDataWithPassword(text, password, salt) IN
  [readable |-> TRUE, salt |-> << e.salt >>, metadata |-> << e.encrypted >>,
   images |-> staged]

\* the archive a successful exportData(password) zips (ExportService 36-80)
ExportArchive(table, files, password, salt, now) ==
  ArchiveOf(Stringify(ExportMetadata(table, now), 2, 0),
            << ExportImages(table, files) >>, password, salt)

(***************************************************************************)
(* importData up to its loop (ImportService 19-80).                        *)
(***************************************************************************)
\* `!metadata.receipts || !Array.isArray(metadata.receipts)` is false
ValidStructure(metadata) ==
  Truthy(Prop(metadata, KeyReceipts)) /\ Prop(metadata, KeyReceipts)[1].t = "arr"

BeginFail(error, decrypts) ==
  [ok |-> FALSE, error |-> error, decrypts |-> decrypts, entries |-> << >>]

\* a variant of BeginOutcome that decrypts what it read before it looks whether
\* the two entries were there
BeginOutcomeDecryptFirst(zip, password, cryptoFails) ==
  IF ~zip.readable THEN BeginFail(PlainError("unzip failed"), 0)
  ELSE IF zip.salt = << >>
    THEN BeginFail(PlainError("Invalid backup file: salt not found"), 1)
  ELSE IF zip.metadata = << >>
    THEN BeginFail(PlainError("Invalid backup file: metadata not found"), 1)
  ELSE IF cryptoFails
    THEN BeginFail(AppError("Decryption failed", "EXPORT_CORRUPTED_DATA", FALSE,
                            "Incorrect password or corrupted backup file"), 1)
  ELSE LET parsed == JsonParse(decryptDataWithPassword(zip.metadata[1], password,
                                                       zip.salt[1])) IN
    IF ~parsed.ok
      THEN BeginFail(PlainError("Invalid backup file: corrupted metadata"), 1)
    ELSE IF parsed.val.t = "null"
      THEN BeginFail(PlainError("TypeError: cannot read 'receipts' of null"), 1)
    ELSE IF ~ValidStructure(parsed.val)
      THEN BeginFail(PlainError("Invalid backup file: invalid structure"), 1)
    ELSE [ok |-> TRUE, error |-> NoError, decrypts |-> 1,
          entries |-> Prop(parsed.val, KeyReceipts)[1].v]

\* a variant of BeginOutcome whose decryption verifies the key and throws when
\* it is the wrong one
BeginOutcomeKeyChecked(zip, password, cryptoFails) ==
  IF ~zip.readable THEN BeginFail(PlainError("unzip failed"), 0)
  ELSE IF zip.salt = << >>
    THEN BeginFail(PlainError("Invalid backup file: salt not found"), 0)
  ELSE IF zip.metadata = << >>
    THEN BeginFail(PlainError("Invalid backup file: metadata not found"), 0)
  ELSE LET parsed == JsonParse(decryptDataWithPassword(zip.metadata[1], password,
                                                       zip.salt[1])) IN
    IF cryptoFails \/ ~parsed.ok
      THEN BeginFail(AppError("Decryption failed", "EXPORT_CORRUPTED_DATA", FALSE,
                              "Incorrect password or corrupted backup file"), 1)
    ELSE IF parsed.val.t = "null"
      THEN BeginFail(PlainError("TypeError: cannot read 'receipts' of null"), 1)
    ELSE IF ~ValidStructure(parsed.val)
      THEN BeginFail(PlainError("Invalid backup file: invalid structure"), 1)
    ELSE [ok |-> TRUE, error |-> NoError, decrypts |-> 1,
          entries |-> Prop(parsed.val, KeyReceipts)[1].v]

\* The outcome of lines 25-71 on an archive: the error thrown or the entries
\* of metadata.receipts, and how often decryptDataWithPassword was called.
\* cryptoFails: the digest primitive rejects (the only way decryption throws).
BeginOutcome(zip, password, cryptoFails) ==
  IF ~zip.readable THEN BeginFail(PlainError("unzip failed"), 0)
  ELSE IF zip.salt = << >>
    THEN BeginFail(PlainError("Invalid backup file: salt not found"), 0)
  ELSE IF zip.metadata = << >>
    THEN BeginFail(PlainError("Invalid backup file: metadata not found"), 0)
  ELSE IF cryptoFails
    THEN BeginFail(AppError("Decryption failed", "EXPORT_CORRUPTED_DATA", FALSE,
                            "Incorrect password or corrupted backup file"), 1)
  ELSE LET parsed == JsonParse(decryptDataWithPassword(zip.metadata[1], password,
                                                       zip.salt[1])) IN
    IF ~parsed.ok
      THEN BeginFail(PlainError("Invalid backup file: corrupted metadata"), 1)
    ELSE IF parsed.val.t = "null"
      THEN BeginFail(PlainError("TypeError: cannot read 'receipts' of null"), 1)
    ELSE IF ~ValidStructure(parsed.val)
      THEN BeginFail(PlainError("Invalid backup file: invalid structure"), 1)
    ELSE [ok |-> TRUE, error |-> NoError, decrypts |-> 1,
          entries |-> Prop(parsed.val, KeyReceipts)[1].v]

\* `f.uri.includes(receiptId)` for the staged file of a name
RECURSIVE IncludesFrom(_, _, _)
IncludesFrom(text, part, i) ==
  IF i + Len(part) - 1 > Len(text) THEN FALSE
  ELSE IF SubSeq(text, i, i + Len(part) - 1) = part THEN TRUE
  ELSE IncludesFrom(text, part, i + 1)

Includes(text, part) == IncludesFrom(text, part, 1)

\* the uri of a staged image file
StagedUri(name) == importTempDir \o ImagesDirName \o name

\* the staged files imageFiles.find may return for an entry (ImportService
\* 109-110): those whose uri includes the id.  find returns the first in the
\* order list() gives, which the file system decides; with an id that is
\* undefined, includes(undefined) looks for the text 'undefined'
MatchingFiles(staged, idOpt) ==
  IF IsStr(idOpt) THEN {f \in staged : Includes(StagedUri(f.name), idOpt[1].v)}
  ELSE {}

(***************************************************************************)
(* importData's loop body (ImportService 82-131), as the choices it makes. *)
(***************************************************************************)
\* existingIds.has(receiptData.id)
Exists(ids, receiptData) ==
  IsStr(Prop(receiptData, KeyId)) /\ Prop(receiptData, KeyId)[1].v \in ids

\* a variant of StrategyStep in which 'skip' does not end the iteration
StrategyStepWithoutSkip(exists, strat) ==
  IF exists /\ strat = "replace" THEN "delete" ELSE "proceed"

\* lines 88-96: what the strategy does with an entry before it is converted
StrategyStep(exists, strat) ==
  IF exists /\ strat = "skip" THEN "skip"
  ELSE IF exists /\ strat = "replace" THEN "delete"
  ELSE "proceed"

\* a variant of WriteOp that looks at the strategy only
WriteOpByStrategy(exists, strat) ==
  IF strat = "merge" THEN "update" ELSE "insert"

\* lines 119-123: the store call that writes the receipt
WriteOp(exists, strat) ==
  IF exists /\ strat = "merge" THEN "update" ELSE "insert"

\* a variant of CaughtErrors that keeps no message
CaughtErrorsSilent(errs, receiptData) == errs

\* a variant of CaughtErrors that reports the failure twice
CaughtErrorsTwice(errs, receiptData) ==
  errs \o << << "Failed to import receipt: ", Prop(receiptData, KeyStoreName) >>,
             << "Failed to import receipt: ", Prop(receiptData, KeyStoreName) >> >>

\* line 128: errors.push(`Failed to import receipt: ${receiptData.storeName}`)
CaughtErrors(errs, receiptData) ==
  Append(errs, << "Failed to import receipt: ", Prop(receiptData, KeyStoreName) >>)

StartsWith(text, prefix) ==
  Len(prefix) <= Len(text) /\ SubSeq(text, 1, Len(prefix)) = prefix

\* a variant of DeleteTempDir that removes the application's image files too
DeleteTempDirAndImages(files) ==
  {f \in files : ~StartsWith(f.path, importTempDir) /\ ~StartsWith(f.path, imageDir)}

\* tempDir.delete() (lines 134-136 and 146-150): of the application's files,
\* those that are left when the staging directory is removed
DeleteTempDir(files) == {f \in files : ~StartsWith(f.path, importTempDir)}

(***************************************************************************)
(* Sample data: receipts as the application stores them, and backup files. *)
(***************************************************************************)
Id1 == << 114, 49 >>
Id2 == << 114, 50 >>

Row(id, storeName, date, totalAmount, tags, notes, ocrText, ext, createdAt, updatedAt) ==
  [id |-> id, storeName |-> storeName, date |-> date, totalAmount |-> totalAmount,
   tags |-> Stringify(JArr(tags), 0, 0), notes |-> notes, ocrText |-> ocrText,
   imageUri |-> imageDir \o id \o ext, createdAt |-> createdAt,
   updatedAt |-> updatedAt]

\* a receipt saved from a scan, without notes
RowA == Row(Id1, << 83 >>, 2, 5, << JStr(<< 116 >>) >>, << >>, << 111 >>, ExtJpg, 1, 1)
\* a receipt whose store name has a character beyond Latin-1 (the euro sign)
RowB == Row(Id2, << 8364 >>, 3, 0, << >>, << << 110 >> >>, << >>, ExtPng, 2, 3)
\* another state of receipt r1, after an edit that left the notes empty
RowC == Row(Id1, << 84 >>, 4, 6, << >>, << << >> >>, << 111 >>, ExtJpg, 2, 4)
\* another state of receipt r2, in Latin-1, with notes
RowD == Row(Id2, << 85 >>, 1, 7, << JStr(<< 116 >>) >>, << << 110 >> >>, << >>, ExtPng, 2, 3)

ImageOf(row, data) == [path |-> row.imageUri, data |-> data]

Store(table, files) == [table |-> table, files |-> files]

StoreEmpty == Store(<< >>, {})
StoreA == Store(<< RowA >>, {ImageOf(RowA, 1)})
StoreC == Store(<< RowC >>, {ImageOf(RowC, 3)})
StoreAB == Store(<< RowA, RowB >>, {ImageOf(RowA, 1), ImageOf(RowB, 2)})
StoreAD == Store(<< RowA, RowD >>, {ImageOf(RowA, 1), ImageOf(RowD, 2)})

InitialStores == {StoreEmpty, StoreA, StoreC, StoreAB, StoreAD}

Pw1 == << 112, 119 >>
Pw2 == << 113, 119 >>
Passwords == {Pw1, Pw2}

\* values of Date.now() while the model runs
NowValues == {8, 9}

\* a salt that does not depend on clock or random source
SaltStatic(now, draw) == Digest(<< >>)

\* the salt encryptDataWithPassword makes (lines 102-105): the digest of
\* Date.now().toString() + Math.random().toString(), where the random source
\* gives "0." and then the digits of draw at its draw-th call
SaltOf(now, draw) == Digest(Digits(now) \o << 48, 46 >> \o Digits(draw))

\* the salt encryptDataWithPassword makes at a time: the digest of
\* Date.now().toString() + Math.random().toString(), here with random 0.5
SaltAt(now) == Digest(Digits(now) \o << 48, 46, 53 >>)

Strategies == {"merge", "replace", "skip"}

\* backup files written by exportData on another device
BackupC == ExportArchive(StoreC.table, StoreC.files, Pw1, SaltAt(7), 7)
BackupAD == ExportArchive(StoreAD.table, StoreAD.files, Pw1, SaltAt(7), 7)

\* a backup holding the given metadata.receipts value and staged images
Crafted(receiptsValue, staged) ==
  ArchiveOf(Stringify(JObj(<< << KeyVersion, JStr(FormatVersion) >>,
                              << KeyReceipts, receiptsValue >> >>), 2, 0),
            staged, Pw1, SaltAt(7))

\* an entry for r1 that no store accepts as new: its store name is empty
EntryBad == ExportEntry([RowA EXCEPT !.storeName = << >>])

\* damaged and foreign files a user may pick
BackupNoSalt == [BackupC EXCEPT !.salt = << >>]
BackupNoMetadata == [BackupC EXCEPT !.metadata = << >>]
BackupUnreadable == [BackupC EXCEPT !.readable = FALSE]
BackupNoReceipts ==
  ArchiveOf(Stringify(JObj(<< << KeyVersion, JStr(FormatVersion) >> >>), 2, 0),
            << {} >>, Pw1, SaltAt(7))
BackupReceiptsNoList == Crafted(JNum(5), << {} >>)
BackupNotJson == ArchiveOf(<< 120 >>, << {} >>, Pw1, SaltAt(7))
BackupNullEntry == Crafted(JArr(<< ExportEntry(RowD), JNull >>), BackupAD.images)
BackupBadEntry == Crafted(JArr(<< EntryBad, ExportEntry(RowD) >>), BackupAD.images)
BackupTwice ==
  Crafted(JArr(<< ExportEntry(RowC), ExportEntry(RowA) >>), BackupC.images)
BackupNoImages == [BackupAD EXCEPT !.images = << >>]
\* the backup of r1 and r2 whose images directory lacks the file of r2
BackupMissingImage ==
  [BackupAD EXCEPT !.images = << {f \in BackupAD.images[1] : Includes(f.name, Id1)} >>]

\* an id that contains the id r1: 'r11'
Id11 == << 114, 49, 49 >>
\* a receipt with that id
RowE == Row(Id11, << 86 >>, 1, 8, << >>, << >>, << >>, ExtPng, 2, 2)
StoreAE == Store(<< RowA, RowE >>, {ImageOf(RowA, 1), ImageOf(RowE, 4)})
\* the backup of r1 and r11, with the images r1.jpg and r11.png
BackupSubstring == ExportArchive(StoreAE.table, StoreAE.files, Pw1, SaltAt(7), 7)

Backups ==
  {BackupC, BackupAD, BackupNoSalt, BackupNoMetadata, BackupUnreadable,
   BackupNoReceipts, BackupReceiptsNoList, BackupNotJson, BackupNullEntry,
   BackupBadEntry, BackupTwice, BackupNoImages, BackupMissingImage}

(***************************************************************************)
(* State.                                                                  *)
(***************************************************************************)
VARIABLES
  receipts,      \* SQLiteStorage: the rows of the receipts table
  images,        \* ImageStorage: the files of imageDir
  zipFile,       \* the backup file the user holds (exportData's / importData's)
  pc,            \* "idle", or where importData is: "loop", "image", "save",
                 \* "done" (returned), "failed" (threw)
  password,      \* importData's arguments
  strategy,
  entries,       \* metadata.receipts
  existingIds,
  idx,           \* position of the for loop in entries
  imported,
  skipped,
  errors,
  receipt,       \* the receipt being imported, << >> outside an iteration
  result,        \* << ImportResult >> once importData returned
  thrown,        \* << error >> once exportData or importData threw
  origin,        \* history: << store and password >> zipFile was exported from
  pre,           \* history: the store when importData was called
  log,           \* history: per entry started, what was done for it
  decryptCalls,  \* history: calls of decryptDataWithPassword
  cPlain,        \* the cipher on its own: plaintext, password, salt,
  cPassword,     \* ciphertext, decrypted text
  cSalt,
  cEncrypted,
  cDecrypted,
  cPhase,
  cResults,      \* history: what successive encryptDataWithPassword calls returned
  tempDir,       \* importData's staging directory: "none", "exists", "deleted",
                 \* or "stuck" (the file system rejected its deletion)
  exportTempDir, \* exportData's staging directory, likewise
  exportOut,     \* << the file the last exportData created in Paths.document >>
  exportLog,     \* history: << what the last exportData staged >>
  secureStore,   \* SecureStore: the items under ENCRYPTION_KEY and KEY_SALT
  keyCall,       \* SecureKeyManager: per caller, the call in progress
  keyLog,        \* history: the calls of SecureKeyManager that completed
  locks,         \* OperationLock.locks: the keys mapped to true
  lockCall,      \* per caller of withLock, the key whose operation it is running
  lockLog,       \* history: the events of the withLock calls
  imageLog       \* history: the calls of ImageStorage made on their own

storeVars == << receipts, images >>
importVars ==
  << password, strategy, entries, existingIds, idx, imported, skipped, errors,
     receipt, result, pre, log, decryptCalls >>
cipherVars == << cPlain, cPassword, cSalt, cEncrypted, cDecrypted, cPhase, cResults >>
exportVars == << exportTempDir, exportOut, exportLog >>
keyVars == << secureStore, keyCall, keyLog >>
lockVars == << locks, lockCall, lockLog >>
vars == << receipts, images, zipFile, pc, password, strategy, entries, existingIds,
           idx, imported, skipped, errors, receipt, result, thrown, origin, pre,
           log, decryptCalls, cPlain, cPassword, cSalt, cEncrypted, cDecrypted,
           cPhase, cResults, tempDir, exportTempDir, exportOut, exportLog, secureStore,
           keyCall, keyLog, locks, lockCall, lockLog, imageLog >>

CipherIdle ==
  /\ cPlain = << >> /\ cPassword = << >> /\ cSalt = << >>
  /\ cEncrypted = << >> /\ cDecrypted = << >> /\ cPhase = "off"
  /\ cResults = << >>

NoImport ==
  /\ pc = "idle"
  /\ password = << >> /\ strategy = "merge" /\ entries = << >>
  /\ existingIds = {} /\ idx = 0 /\ imported = 0 /\ skipped = 0
  /\ errors = << >> /\ receipt = << >> /\ result = << >> /\ thrown = << >>
  /\ pre = << >> /\ log = << >> /\ decryptCalls = 0
  /\ tempDir = "none"

\* OperationLock: the callers of withLock, and no call of it so far
LockCallers == {1, 2, 3}
NoLocks ==
  /\ locks = {} /\ lockCall = [c \in LockCallers |-> << >>] /\ lockLog = << >>
  /\ imageLog = << >>

NoExport ==
  exportTempDir = "none" /\ exportOut = << >> /\ exportLog = << >>

\* SecureKeyManager: the names of its two items, and its callers (two calls
\* may be in flight at once, each suspended at one of its awaits)
ENCRYPTION_KEY == "paperkeep_encryption_key"
KEY_SALT == "paperkeep_key_salt"
Callers == {1, 2}

NoCall == [op |-> "none", at |-> "none", item |-> "", local |-> << >>, start |-> 0]

NoKeyLog ==
  [clock |-> 0, started |-> 0, generated |-> 0, calls |-> << >>, writes |-> << >>,
   deletes |-> {}]

\* no call of SecureKeyManager in progress
NoKeyCalls == keyCall = [c \in Callers |-> NoCall] /\ keyLog = NoKeyLog

EmptySecureStore == [k \in {ENCRYPTION_KEY, KEY_SALT} |-> << >>]

\* the secure store of a device on which key and salt were set up earlier
\* (value 0; the values generated later are 1, 2, ...)
DeviceSecureStore == [k \in {ENCRYPTION_KEY, KEY_SALT} |-> << 0 >>]

KeysIdle == secureStore = DeviceSecureStore /\ NoKeyCalls

\* the application with some receipts stored and a backup file at hand
Init ==
  /\ \E st \in InitialStores : receipts = st.table /\ images = st.files
  /\ zipFile \in Backups
  /\ origin = << >>
  /\ NoImport
  /\ NoExport
  /\ NoLocks
  /\ CipherIdle
  /\ KeysIdle

(***************************************************************************)
(* exportData(password), called from the settings screen.                  *)
(***************************************************************************)
\* exportData without the deletion of its catch
ExportCleanupSkipped(dir, rejects) == dir

\* the catch's 'if (tempDir.exists) tempDir.delete()' in a try whose catch is
\* empty (lines 87-92); rejects: the file system refuses the deletion
ExportCleanup(dir, rejects) ==
  IF dir = "exists" THEN (IF rejects THEN "stuck" ELSE "deleted") ELSE dir

\* where an I/O operation of exportData throws: "metadata" createFile of line
\* 53, "copy" the copy of line 71, "zip" zip() of line 80, "cleanup" the
\* tempDir.delete() of line 83
ExportFaults == {"none", "metadata", "copy", "zip", "cleanup"}

\* the entries of the staging directory written before the call left the try
ExportStaged(empty, fault) ==
  IF empty \/ fault = "metadata" THEN {}
  ELSE IF fault = "copy" THEN {"metadata.enc", "salt.txt"}
  ELSE {"metadata.enc", "salt.txt", "images"}

\* the file of line 78 in Paths.document: it is created before zip() runs
ExportCreated(empty, fault) ==
  IF empty \/ fault \in {"metadata", "copy"} THEN << >>
  ELSE << [complete |-> fault # "zip"] >>

ExportData(pw, now, fault, rejects) ==
  /\ pc = "idle"
  /\ LET empty == getAllReceipts(receipts) = << >> IN
     /\ exportLog' = << [empty |-> empty, fault |-> (~empty /\ fault # "none"),
                         staged |-> ExportStaged(empty, fault)] >>
     /\ exportOut' = ExportCreated(empty, fault)
     /\ IF empty
        THEN /\ thrown' = << ExportRethrow(
                               AppError("No receipts to export", "EXPORT_CORRUPTED_DATA",
                                        FALSE, "You have no receipts to export")) >>
             /\ exportTempDir' = ExportCleanup("exists", rejects)
             /\ UNCHANGED << zipFile, origin >>
        ELSE IF fault # "none"
        THEN /\ thrown' = << ExportRethrow(PlainError(fault)) >>
             /\ exportTempDir' = ExportCleanup("exists", rejects)
             /\ UNCHANGED << zipFile, origin >>
        ELSE /\ zipFile' = ExportArchive(receipts, images, pw, SaltAt(now), now)
             /\ origin' = << [table |-> receipts, files |-> images, password |-> pw] >>
             /\ thrown' = << >>
             /\ exportTempDir' = "deleted"
  /\ UNCHANGED << storeVars, pc, importVars, tempDir, cipherVars, keyVars, lockVars, imageLog >>

(***************************************************************************)
(* The user deletes a receipt (app/receipt-detail.tsx:69):                 *)
(* PaperkeepStorage.deleteReceipt.                                         *)
(***************************************************************************)
UserDeleteReceipt(id) ==
  /\ pc = "idle"
  /\ id \in RowIds(receipts)
  /\ receipts' = DeleteRow(receipts, id, 1)
  /\ images' = deleteImage(images, id)
  /\ UNCHANGED << zipFile, pc, importVars, thrown, origin, tempDir, exportVars,
                  cipherVars, keyVars, lockVars, imageLog >>

(***************************************************************************)
(* importData(zipUri, password, strategy), in the steps between its awaits.*)
(***************************************************************************)
LogEntry(receiptData, exists) ==
  [entry |-> receiptData, exists |-> exists, ops |-> << >>, fault |-> FALSE,
   outcome |-> "pending"]

LogOp(l, op) == [l EXCEPT ![Len(l)].ops = Append(@, op)]
LogFault(l) == [l EXCEPT ![Len(l)].fault = TRUE]
LogOutcome(l, outcome) == [l EXCEPT ![Len(l)].outcome = outcome]

\* the catch of the loop body (lines 126-130), then the next entry
Caught(l) ==
  /\ errors' = CaughtErrors(errors, entries[idx])
  /\ skipped' = skipped + 1
  /\ idx' = idx + 1
  /\ receipt' = << >>
  /\ log' = LogOutcome(l, "failed")
  /\ pc' = "loop"
  /\ UNCHANGED << imported >>

\* importData without the deletion of its catch
ImportCleanupSkipped(dir, rejects) == dir

\* lines 146-150: 'if (tempDir.exists) tempDir.delete()' in a try whose catch
\* is empty; rejects: the file system refuses the deletion
ImportCleanup(dir, rejects) ==
  IF dir = "exists" THEN (IF rejects THEN "stuck" ELSE "deleted") ELSE dir

\* the top-level catch (lines 144-163)
Throw(error) ==
  /\ pc' = "failed"
  /\ thrown' = << ImportRethrow(error) >>
  /\ images' = DeleteTempDir(images)
  /\ \E rejects \in BOOLEAN : tempDir' = ImportCleanup("exists", rejects)

\* lines 19-80: staging, the checks of the archive, decryption, parsing, the
\* snapshot of the ids in the store.  fault: "crypto" the digest primitive
\* rejects, "store" getAllReceipts rejects
ImportBegin(pw, strat, fault) ==
  /\ pc = "idle"
  /\ LET out == BeginOutcome(zipFile, pw, fault = "crypto") IN
     /\ password' = pw
     /\ strategy' = strat
     /\ pre' = << Store(receipts, images) >>
     /\ decryptCalls' = decryptCalls + out.decrypts
     /\ IF ~out.ok
        THEN /\ Throw(out.error)
             /\ UNCHANGED << entries, existingIds, idx >>
        ELSE IF fault = "store"
        THEN /\ Throw(AppError("Failed to get receipts", "STORAGE_FILE_SYSTEM_ERROR",
                               TRUE, "Failed to retrieve receipts. Please try again."))
             /\ UNCHANGED << entries, existingIds, idx >>
        ELSE /\ entries' = out.entries
             /\ existingIds' = RowIds(receipts)
             /\ idx' = 1
             /\ pc' = "loop"
             /\ thrown' = << >>
             /\ tempDir' = "exists"
             /\ UNCHANGED images
  /\ UNCHANGED << receipts, zipFile, imported, skipped, errors, receipt, result,
                  log, origin, exportVars, cipherVars, keyVars, lockVars, imageLog >>

\* lines 82-104: one entry up to its conversion; with 'replace' and an id the
\* store had, PaperkeepStorage.deleteReceipt, whose two deletions may each fail
RecordStart(dbFails, imageFails) ==
  /\ pc = "loop"
  /\ idx <= Len(entries)
  /\ LET receiptData == entries[idx]
         exists == Exists(existingIds, receiptData)
         step == StrategyStep(exists, strategy)
         l == Append(log, LogEntry(receiptData, exists)) IN
     IF receiptData.t = "null"
     THEN \* receiptData.id throws in the try and again in the catch
          /\ Throw(PlainError("TypeError: cannot read 'id' of null"))
          /\ log' = LogOutcome(l, "aborted")
          /\ UNCHANGED << receipts, idx, imported, skipped, errors, receipt >>
     ELSE IF step = "skip"
     THEN /\ skipped' = skipped + 1
          /\ idx' = idx + 1
          /\ log' = LogOutcome(l, "skipped")
          /\ UNCHANGED << storeVars, pc, imported, errors, receipt, thrown, tempDir >>
     ELSE IF step = "delete"
     THEN /\ receipts' = IF dbFails THEN receipts
                         ELSE DeleteRow(receipts, Prop(receiptData, KeyId)[1].v, 1)
          /\ images' = IF imageFails THEN images
                       ELSE deleteImage(images, Prop(receiptData, KeyId)[1].v)
          /\ IF dbFails \/ imageFails
             THEN Caught(LogFault(LogOp(l, "delete")))
             ELSE /\ receipt' = << ReceiptOf(receiptData) >>
                  /\ log' = LogOp(l, "delete")
                  /\ pc' = "image"
                  /\ UNCHANGED << idx, imported, skipped, errors >>
          /\ UNCHANGED << thrown, tempDir >>
     ELSE /\ receipt' = << ReceiptOf(receiptData) >>
          /\ log' = l
          /\ pc' = "image"
          /\ UNCHANGED << storeVars, idx, imported, skipped, errors, thrown, tempDir >>
  /\ UNCHANGED << zipFile, password, strategy, entries, existingIds, result, pre,
                  decryptCalls, origin, exportVars, cipherVars, keyVars, lockVars, imageLog >>

\* lines 106-116: the staged image of the entry, if any, goes to the store
RecordImage(copyFails) ==
  /\ pc = "image"
  /\ LET id == receipt[1].id
         found == IF zipFile.images = << >> THEN {}
                  ELSE MatchingFiles(zipFile.images[1], id) IN
     IF found = {}
     THEN /\ pc' = "save"
          /\ UNCHANGED << images, receipt, idx, imported, skipped, errors, log >>
     ELSE \E f \in found :
            IF copyFails
            THEN /\ Caught(LogFault(LogOp(log, "saveImage")))
                 /\ UNCHANGED images
            ELSE /\ images' = saveImage(images, StagedUri(f.name), f.data, id[1].v)
                 /\ receipt' = << [receipt[1] EXCEPT !.imageUri =
                                     << JStr(saveImageUri(StagedUri(f.name), id[1].v)) >>] >>
                 /\ log' = LogOp(log, "saveImage")
                 /\ pc' = "save"
                 /\ UNCHANGED << idx, imported, skipped, errors >>
  /\ UNCHANGED << receipts, zipFile, password, strategy, entries, existingIds,
                  result, thrown, pre, decryptCalls, origin, tempDir, exportVars,
                  cipherVars, keyVars, lockVars, imageLog >>

\* lines 118-125: updateReceipt or saveReceipt, then imported++
RecordSave(writeFails, now) ==
  /\ pc = "save"
  /\ LET r == receipt[1]
         exists == Exists(existingIds, entries[idx])
         op == WriteOp(exists, strategy)
         ok == /\ ~writeFails
               /\ IF op = "update" THEN CanUpdate(r) ELSE CanSave(receipts, r) IN
     IF ok
     THEN /\ receipts' = IF op = "update"
                         THEN updateReceipt(receipts, r.id[1].v, r, now)
                         ELSE saveReceipt(receipts, r)
          /\ imported' = imported + 1
          /\ idx' = idx + 1
          /\ receipt' = << >>
          /\ log' = LogOutcome(LogOp(log, op), "imported")
          /\ pc' = "loop"
          /\ UNCHANGED << skipped, errors >>
     ELSE /\ Caught(IF writeFails THEN LogFault(LogOp(log, op)) ELSE LogOp(log, op))
          /\ UNCHANGED receipts
  /\ UNCHANGED << images, zipFile, password, strategy, entries, existingIds,
                  result, thrown, pre, decryptCalls, origin, tempDir, exportVars,
                  cipherVars, keyVars, lockVars, imageLog >>

\* lines 133-143: the staging directory is removed and the result returned
ImportFinish(cleanupFails) ==
  /\ pc = "loop"
  /\ idx > Len(entries)
  /\ IF cleanupFails
     THEN /\ Throw(PlainError("delete failed"))
          /\ UNCHANGED result
     ELSE /\ pc' = "done"
          /\ images' = DeleteTempDir(images)
          /\ tempDir' = "deleted"
          /\ result' = << [success |-> TRUE, imported |-> imported,
                           skipped |-> skipped, errors |-> errors] >>
          /\ UNCHANGED thrown
  /\ UNCHANGED << receipts, zipFile, password, strategy, entries, existingIds, idx,
                  imported, skipped, errors, receipt, pre, log, decryptCalls,
                  origin, exportVars, cipherVars, keyVars, lockVars, imageLog >>

Next ==
  \/ \E pw \in Passwords, now \in NowValues : ExportData(pw, now, "none", FALSE)
  \/ \E id \in {Id1, Id2} : UserDeleteReceipt(id)
  \/ \E pw \in Passwords, strat \in Strategies, fault \in {"none", "crypto", "store"} :
       ImportBegin(pw, strat, fault)
  \/ \E dbFails \in BOOLEAN, imageFails \in BOOLEAN : RecordStart(dbFails, imageFails)
  \/ \E copyFails \in BOOLEAN : RecordImage(copyFails)
  \/ \E writeFails \in BOOLEAN, now \in NowValues : RecordSave(writeFails, now)
  \/ \E cleanupFails \in BOOLEAN : ImportFinish(cleanupFails)

Spec == Init /\ [][Next]_vars

(***************************************************************************)
(* exportData on its own, with the I/O operations that may throw.          *)
(***************************************************************************)
ExportInit ==
  /\ \E st \in InitialStores : receipts = st.table /\ images = st.files
  /\ zipFile = BackupC
  /\ origin = << >>
  /\ NoImport
  /\ NoExport
  /\ NoLocks
  /\ CipherIdle
  /\ KeysIdle

ExportNext ==
  \/ \E pw \in Passwords, now \in NowValues, fault \in ExportFaults, rejects \in BOOLEAN :
       ExportData(pw, now, fault, rejects)
  \/ \E id \in {Id1, Id2} : UserDeleteReceipt(id)

ExportSpec == ExportInit /\ [][ExportNext]_vars

(***************************************************************************)
(* SecureKeyManager, in the steps between its awaits.  A value of the      *)
(* store is << v >>, or << >> where getItemAsync gives null.               *)
(***************************************************************************)
getStoredKey(store, key) == store[key]

storeKey(store, key, value) == [store EXCEPT ![key] = << value >>]

deleteItem(store, key) == [store EXCEPT ![key] = << >>]

\* the n-th value drawn from the random source: 32 random bytes as hex, or
\* the digest of clock and Math.random(); two draws never agree
generateEncryptionKey(n) == n

\* the test 'if (!key)' negated (lines 32, 51): a value was found
KeyFound(value) == value # << >>

KeyOps == {"getEncryptionKey", "getKeySalt", "deleteAllKeys", "hasKeys"}

ItemOf(op) == IF op = "getKeySalt" THEN KEY_SALT ELSE ENCRYPTION_KEY

Tick(l) == [l EXCEPT !.clock = @ + 1]

\* the call of c returns ret
KeyReturn(c, l, ret, wrote) ==
  /\ keyCall' = [keyCall EXCEPT ![c] = NoCall]
  /\ keyLog' = [Tick(l) EXCEPT !.calls =
                  Append(@, [caller |-> c, op |-> keyCall[c].op, ret |-> ret,
                             wrote |-> wrote, start |-> keyCall[c].start,
                             end |-> l.clock + 1])]

KeyFrame ==
  UNCHANGED << storeVars, zipFile, pc, importVars, thrown, origin, tempDir,
               exportVars, cipherVars, lockVars, imageLog >>

\* a caller enters one of the four static methods
KeyStart(c, op) ==
  /\ keyCall[c].op = "none"
  /\ keyLog.started < MaxKeyCalls
  /\ keyCall' = [keyCall EXCEPT ![c] =
                   [op |-> op, at |-> IF op = "deleteAllKeys" THEN "deleteKey" ELSE "read",
                    item |-> ItemOf(op), local |-> << >>, start |-> keyLog.clock + 1]]
  /\ keyLog' = [Tick(keyLog) EXCEPT !.started = @ + 1]
  /\ UNCHANGED secureStore
  /\ KeyFrame

\* 'await this.getStoredKey(...)' of lines 30, 49 and 121 resumes
KeyRead(c) ==
  /\ keyCall[c].at = "read"
  /\ LET value == getStoredKey(secureStore, keyCall[c].item) IN
     IF keyCall[c].op = "hasKeys"
     THEN KeyReturn(c, keyLog, << value # << >> >>, FALSE)
     ELSE IF KeyFound(value)
     THEN KeyReturn(c, keyLog, value, FALSE)
     ELSE /\ keyCall' = [keyCall EXCEPT ![c].at = "generate"]
          /\ keyLog' = Tick(keyLog)
  /\ UNCHANGED secureStore
  /\ KeyFrame

\* 'await this.generateEncryptionKey()' of line 34, the digest of line 53
KeyGenerate(c) ==
  /\ keyCall[c].at = "generate"
  /\ keyCall' = [keyCall EXCEPT ![c].at = "store",
                                ![c].local = << generateEncryptionKey(keyLog.generated + 1) >>]
  /\ keyLog' = [Tick(keyLog) EXCEPT !.generated = @ + 1]
  /\ UNCHANGED secureStore
  /\ KeyFrame

\* 'await this.storeKey(...)' of lines 35 and 57, then the return
KeyStore(c) ==
  /\ keyCall[c].at = "store"
  /\ LET item == keyCall[c].item
         value == keyCall[c].local[1]
         l == [keyLog EXCEPT !.writes =
                 Append(@, [item |-> item, value |-> value, caller |-> c,
                            at |-> keyLog.clock + 1,
                            replaced |-> getStoredKey(secureStore, item)])] IN
     /\ secureStore' = storeKey(secureStore, item, value)
     /\ KeyReturn(c, l, << value >>, TRUE)
  /\ KeyFrame

\* deleteAllKeys: the two deleteItemAsync of lines 112 and 113
KeyDelete(c) ==
  /\ keyCall[c].at \in {"deleteKey", "deleteSalt"}
  /\ LET l == [keyLog EXCEPT !.deletes = @ \cup {keyLog.clock + 1}] IN
     IF keyCall[c].at = "deleteKey"
     THEN /\ secureStore' = deleteItem(secureStore, ENCRYPTION_KEY)
          /\ keyCall' = [keyCall EXCEPT ![c].at = "deleteSalt"]
          /\ keyLog' = Tick(l)
     ELSE /\ secureStore' = deleteItem(secureStore, KEY_SALT)
          /\ KeyReturn(c, l, << >>, FALSE)
  /\ KeyFrame

KeyInit ==
  /\ receipts = << >> /\ images = {} /\ zipFile = BackupUnreadable
  /\ origin = << >>
  /\ NoImport
  /\ NoExport
  /\ NoLocks
  /\ CipherIdle
  /\ secureStore \in {EmptySecureStore, DeviceSecureStore}
  /\ NoKeyCalls

KeyNext ==
  \/ \E c \in Callers, op \in KeyOps : KeyStart(c, op)
  \/ \E c \in Callers : KeyRead(c)
  \/ \E c \in Callers : KeyGenerate(c)
  \/ \E c \in Callers : KeyStore(c)
  \/ \E c \in Callers : KeyDelete(c)

KeySpec == KeyInit /\ [][KeyNext]_vars

(***************************************************************************)
(* Export and import on a device whose application also calls              *)
(* SecureKeyManager: one call of it, at any point of an export or import.  *)
(***************************************************************************)
TrustInit ==
  /\ receipts = StoreA.table /\ images = StoreA.files
  /\ zipFile = BackupAD
  /\ origin = << >>
  /\ NoImport
  /\ NoExport
  /\ NoLocks
  /\ CipherIdle
  /\ secureStore \in {EmptySecureStore, DeviceSecureStore}
  /\ NoKeyCalls

TrustNext ==
  \/ \E pw \in Passwords : ExportData(pw, 8, "none", FALSE)
  \/ \E pw \in Passwords, strat \in Strategies : ImportBegin(pw, strat, "none")
  \/ RecordStart(FALSE, FALSE)
  \/ RecordImage(FALSE)
  \/ RecordSave(FALSE, 9)
  \/ ImportFinish(FALSE)
  \/ \E op \in KeyOps : keyLog.started = 0 /\ KeyStart(1, op)
  \/ KeyRead(1)
  \/ KeyGenerate(1)
  \/ KeyStore(1)
  \/ KeyDelete(1)

TrustSpec == TrustInit /\ [][TrustNext]_vars

(***************************************************************************)
(* The encryption step of exportData, repeated on the same records with    *)
(* the same password: each call draws once from the random source.         *)
(***************************************************************************)
SaltInit ==
  /\ \E st \in InitialStores \ {StoreEmpty} : receipts = st.table /\ images = st.files
  /\ zipFile = BackupC
  /\ origin = << >>
  /\ NoImport
  /\ NoExport
  /\ NoLocks
  /\ KeysIdle
  /\ cPlain = << >> /\ cSalt = << >> /\ cEncrypted = << >> /\ cDecrypted = << >>
  /\ cPhase = "off"
  /\ cPassword \in Passwords
  /\ cResults = << >>

\* ExportService 49-50: metadataJson is serialized and encrypted
SaltExport(now) ==
  /\ Len(cResults) < MaxExports
  /\ cResults' = Append(cResults,
                    encryptDataWithPassword(Stringify(ExportMetadata(receipts, now), 2, 0),
                                            cPassword, SaltOf(now, Len(cResults) + 1)))
  /\ UNCHANGED << storeVars, zipFile, pc, importVars, thrown, origin, cPlain,
                  cPassword, cSalt, cEncrypted, cDecrypted, cPhase, tempDir,
                  exportVars, keyVars, lockVars, imageLog >>

SaltNext == \E now \in NowValues : SaltExport(now)

SaltSpec == SaltInit /\ [][SaltNext]_vars

(***************************************************************************)
(* The start of importData, with any of the passwords, when the digest     *)
(* primitive and the store work.                                           *)
(***************************************************************************)
DecryptNext ==
  \E pw \in Passwords, strat \in Strategies : ImportBegin(pw, strat, "none")

DecryptSpec == Init /\ [][DecryptNext]_vars

(***************************************************************************)
(* importData, no operation failing, of backups whose staged images have   *)
(* names that contain each other.                                          *)
(***************************************************************************)
AttachInit ==
  /\ \E st \in InitialStores : receipts = st.table /\ images = st.files
  /\ zipFile \in {BackupSubstring, BackupAD}
  /\ origin = << >>
  /\ NoImport
  /\ NoExport
  /\ NoLocks
  /\ CipherIdle
  /\ KeysIdle

AttachNext ==
  \/ \E strat \in Strategies : ImportBegin(Pw1, strat, "none")
  \/ RecordStart(FALSE, FALSE)
  \/ RecordImage(FALSE)
  \/ \E now \in NowValues : RecordSave(FALSE, now)
  \/ ImportFinish(FALSE)

AttachSpec == AttachInit /\ [][AttachNext]_vars

(***************************************************************************)
(* OperationLock.  acquire and release run without an await, so each is    *)
(* one step; the operation of withLock runs in between.                    *)
(***************************************************************************)
\* an acquire that takes the lock whether or not it is held
acquireUnchecked(held, key) == [ok |-> TRUE, locks |-> held \cup {key}]

\* acquire(key): false when locks.get(key), else the key is set and true
acquire(held, key) ==
  IF key \in held THEN [ok |-> FALSE, locks |-> held]
  ELSE [ok |-> TRUE, locks |-> held \cup {key}]

\* release(key): locks.delete(key)
release(held, key) == held \ {key}

\* isLocked(key)
isLocked(held, key) == key \in held

LockKeys == {"export", "import"}

LockEvent(kind, c, key) == [kind |-> kind, caller |-> c, key |-> key]

LockFrame ==
  UNCHANGED << storeVars, zipFile, pc, importVars, thrown, origin, tempDir,
               exportVars, cipherVars, keyVars, imageLog >>

\* withLock(key, operation) up to the await of line 52: null when the key is
\* held, else the operation is started
WithLock(c, key) ==
  /\ lockCall[c] = << >>
  /\ Len(SelectSeq(lockLog, LAMBDA e : e.kind \in {"null", "start"})) < MaxLockCalls
  /\ LET a == acquire(locks, key) IN
     /\ locks' = a.locks
     /\ IF a.ok
        THEN /\ lockCall' = [lockCall EXCEPT ![c] = << key >>]
             /\ lockLog' = Append(lockLog, LockEvent("start", c, key))
        ELSE /\ lockLog' = Append(lockLog, LockEvent("null", c, key))
             /\ UNCHANGED lockCall
  /\ LockFrame

\* the operation settles, and the finally of lines 54-56 releases the key
OperationEnds(c, throws) ==
  /\ lockCall[c] # << >>
  /\ locks' = release(locks, lockCall[c][1])
  /\ lockCall' = [lockCall EXCEPT ![c] = << >>]
  /\ lockLog' = Append(lockLog,
                   LockEvent(IF throws THEN "throw" ELSE "return", c, lockCall[c][1]))
  /\ LockFrame

LockInit ==
  /\ receipts = << >> /\ images = {} /\ zipFile = BackupUnreadable
  /\ origin = << >>
  /\ NoImport
  /\ NoExport
  /\ NoLocks
  /\ CipherIdle
  /\ KeysIdle

LockNext ==
  \/ \E c \in LockCallers, key \in LockKeys : WithLock(c, key)
  \/ \E c \in LockCallers, throws \in BOOLEAN : OperationEnds(c, throws)

LockSpec == LockInit /\ [][LockNext]_vars

(***************************************************************************)
(* ImageStorage on its own: saveImage, getImage and deleteImage called one *)
(* after the other for the receipts r1 and r2, and the images an export    *)
(* would stage for a store holding these two receipts.                     *)
(***************************************************************************)
\* the extensions getImageExtension keeps
SourceExtensions == {ExtJpg, ExtJpeg, ExtPng, ExtGif, ExtWebp}

\* a picked or captured source file: 'cache/p' plus its extension
SourceUri(ext) == << 99, 97, 99, 104, 101, 47, 112 >> \o ext

ImageIds == {Id1, Id2}

ImageCall(op, id, ret) == [op |-> op, id |-> id, ret |-> ret]

ImageFrame ==
  UNCHANGED << receipts, zipFile, pc, importVars, thrown, origin, tempDir,
               exportVars, cipherVars, keyVars, locks, lockCall, lockLog >>

ImageSave(ext, id, data) ==
  /\ Len(imageLog) < MaxImageCalls
  /\ images' = saveImage(images, SourceUri(ext), data, id)
  /\ imageLog' = Append(imageLog,
                   ImageCall("saveImage", id, << saveImageUri(SourceUri(ext), id) >>))
  /\ ImageFrame

ImageGet(id) ==
  /\ Len(imageLog) < MaxImageCalls
  /\ imageLog' = Append(imageLog, ImageCall("getImage", id, getImage(images, id)))
  /\ UNCHANGED images
  /\ ImageFrame

ImageDelete(id) ==
  /\ Len(imageLog) < MaxImageCalls
  /\ images' = deleteImage(images, id)
  /\ imageLog' = Append(imageLog, ImageCall("deleteImage", id, << >>))
  /\ ImageFrame

ImageInit ==
  /\ receipts = StoreAD.table /\ images = {} /\ zipFile = BackupUnreadable
  /\ origin = << >>
  /\ NoImport
  /\ NoExport
  /\ NoLocks
  /\ CipherIdle
  /\ KeysIdle

ImageNext ==
  \/ \E ext \in SourceExtensions, id \in ImageIds, data \in {1, 2} :
       ImageSave(ext, id, data)
  \/ \E id \in ImageIds : ImageGet(id)
  \/ \E id \in ImageIds : ImageDelete(id)

ImageSpec == ImageInit /\ [][ImageNext]_vars

(***************************************************************************)
(* The cipher on its own: a text is encrypted with a password and a fresh  *)
(* salt, and the result decrypted with the same password and that salt.    *)
(***************************************************************************)
\* code units of the plaintexts: 'A', two Latin-1 limits, the euro sign
PlainCodes == {65, 255, 256, 8364}

PlainTexts == UNION {[1..n -> PlainCodes] : n \in 0..MaxPlainLen}

CipherInit ==
  /\ receipts = << >> /\ images = {} /\ zipFile = BackupUnreadable
  /\ origin = << >>
  /\ NoImport
  /\ NoExport
  /\ NoLocks
  /\ KeysIdle
  /\ cPlain \in PlainTexts
  /\ cPassword \in Passwords
  /\ cSalt = << >> /\ cEncrypted = << >> /\ cDecrypted = << >>
  /\ cPhase = "plain"
  /\ cResults = << >>

CipherEncrypt(now) ==
  /\ cPhase = "plain"
  /\ LET e == encryptDataWithPassword(cPlain, cPassword, SaltAt(now)) IN
     /\ cEncrypted' = e.encrypted
     /\ cSalt' = e.salt
  /\ cPhase' = "encrypted"
  /\ UNCHANGED << storeVars, zipFile, pc, importVars, thrown, origin, cPlain,
                  cPassword, cDecrypted, cResults, tempDir, exportVars, keyVars, lockVars, imageLog >>

CipherDecrypt ==
  /\ cPhase = "encrypted"
  /\ cDecrypted' = decryptDataWithPassword(cEncrypted, cPassword, cSalt)
  /\ cPhase' = "decrypted"
  /\ UNCHANGED << storeVars, zipFile, pc, importVars, thrown, origin, cPlain,
                  cPassword, cSalt, cEncrypted, cResults, tempDir, exportVars, keyVars, lockVars, imageLog >>

CipherNext ==
  \/ \E now \in NowValues : CipherEncrypt(now)
  \/ CipherDecrypt

CipherSpec == CipherInit /\ [][CipherNext]_vars

(***************************************************************************)
(* Properties.                                                             *)
(***************************************************************************)
\* the fields of a record other than the attachment path
RecordFields ==
  {KeyId, KeyStoreName, KeyDate, KeyTotalAmount, KeyTags, KeyNotes, KeyOcrText,
   KeyCreatedAt, KeyUpdatedAt}

\* two records, as metadata entries, agree in the given fields
SameIn(a, b, keys) == \A k \in keys : Prop(a, k) = Prop(b, k)

\* two records agree in the given fields, empty notes counting as no notes
SameButEmptyNotes(a, b, keys) ==
  /\ SameIn(a, b, keys \ {KeyNotes})
  /\ KeyNotes \in keys =>
       \/ Prop(a, KeyNotes) = Prop(b, KeyNotes)
       \/ ~Truthy(Prop(a, KeyNotes)) /\ ~Truthy(Prop(b, KeyNotes))

\* the record of an id as the store returns it, as a metadata entry
StoredEntry(table, id) == ExportEntry(RowWithId(table, id, 1)[1])

Stored(table, id) == RowWithId(table, id, 1) # << >>

\* the attachment files of an id
ImagesOf(files, id) ==
  {f \in files :
     \E ext \in {ExtJpg, ExtJpeg, ExtPng, ExtGif, ExtWebp} :
        f.path = imageDir \o id \o ext}

\* the attachment contents of an id, whatever the path
ImageData(files, id) == {f.data : f \in ImagesOf(files, id)}

EntryId(i) == Prop(log[i].entry, KeyId)[1].v

\* a later entry of the archive has the id of entry i
LaterSameId(i) ==
  \E j \in (i + 1)..Len(log) : Prop(log[j].entry, KeyId) = Prop(log[i].entry, KeyId)

Count(outcome) == Cardinality({i \in DOMAIN log : log[i].outcome = outcome})

\* the import ran without a failure of the environment
NoFault == \A i \in DOMAIN log : ~log[i].fault

\* C1: exporting a non-empty store whose records all have attachments and
\* importing the archive with the same password and 'replace' into an empty
\* store gives back every record field for field, and every attachment
\* (stated here even with empty notes counting as no notes).
C1_RoundTrip ==
  (/\ pc = "done"
   /\ origin # << >>
   /\ strategy = "replace"
   /\ password = origin[1].password
   /\ pre[1] = StoreEmpty
   /\ NoFault
   /\ \A i \in 1..Len(origin[1].table) :
         ImagesOf(origin[1].files, origin[1].table[i].id) # {})
  => /\ Len(receipts) = Len(origin[1].table)
     /\ \A i \in 1..Len(origin[1].table) :
          LET id == origin[1].table[i].id IN
          /\ Stored(receipts, id)
          /\ SameButEmptyNotes(StoredEntry(receipts, id),
                               ExportEntry(origin[1].table[i]), RecordFields)
          /\ ImageData(images, id) = ImageData(origin[1].files, id)

\* C2: decrypting what encryptDataWithPassword made of a plaintext, with the
\* same password and the salt it returned, gives exactly the plaintext.
C2_Lossless == cPhase = "decrypted" => cDecrypted = cPlain

\* the decrypted payload of the archive is no JSON text
ParseFails ==
  /\ zipFile.readable /\ zipFile.salt # << >> /\ zipFile.metadata # << >>
  /\ ~JsonParse(decryptDataWithPassword(zipFile.metadata[1], password,
                                        zipFile.salt[1])).ok

\* the archive is one that another password opens
WrongPassword ==
  \E pw \in Passwords \ {password} : BeginOutcome(zipFile, pw, FALSE).ok

\* C3: when a valid archive is imported with an incorrect password and the
\* decrypted payload does not parse, the error importData throws has the user
\* message 'Incorrect password or corrupted backup file'.
C3_ParseFailureMessage ==
  (/\ pc = "failed"
   /\ thrown[1].message # "Decryption failed"
   /\ ParseFails
   /\ WrongPassword)
  => thrown[1].userMessage = "Incorrect password or corrupted backup file"

\* the user messages of the top-level errors of a missing salt.txt, a missing
\* metadata.enc, a failed decryption, unparseable metadata and metadata
\* without a list of receipts
StructuralMessages ==
  {"Invalid backup file: salt not found", "Invalid backup file: metadata not found",
   "Incorrect password or corrupted backup file",
   "Invalid backup file: corrupted metadata", "Invalid backup file: invalid structure"}

\* C4: an import that throws one of the structural or decryption errors has
\* performed no store operation: records and attachments are as before the call.
C4_AbortMutatesNothing ==
  (pc = "failed" /\ thrown[1].userMessage \in StructuralMessages)
  => (log = << >> /\ Store(receipts, images) = pre[1])

C4_Witness ==
  /\ pc = "failed"
  /\ thrown[1].userMessage = "Invalid backup file: corrupted metadata"
  /\ receipts # << >> /\ images # {}

\* C5: on an archive without salt.txt or without metadata.enc importData
\* throws the error of the missing entry and never calls
\* decryptDataWithPassword, whatever the password.
C5_RejectBeforeDecrypt ==
  (pc # "idle" /\ zipFile.readable /\ (zipFile.salt = << >> \/ zipFile.metadata = << >>))
  => /\ pc = "failed"
     /\ decryptCalls = 0
     /\ thrown[1].userMessage =
          (IF zipFile.salt = << >> THEN "Invalid backup file: salt not found"
           ELSE "Invalid backup file: metadata not found")

C5_Witness ==
  /\ pc = "failed" /\ zipFile.readable /\ zipFile.metadata = << >>
  /\ password = Pw2 /\ decryptCalls = 0

\* C6: with 'skip', an entry whose id the store had when the import started
\* adds exactly 1 to skipped and causes no store operation, so that record
\* and its attachment stay as they were.
C6_Skip ==
  (pc # "idle" /\ strategy = "skip")
  => /\ \A i \in DOMAIN log :
          log[i].exists => (log[i].outcome = "skipped" /\ log[i].ops = << >>)
     /\ skipped = Count("skipped") + Count("failed")
     /\ \A i \in DOMAIN log :
          log[i].exists =>
            /\ RowWithId(receipts, EntryId(i), 1) = RowWithId(pre[1].table, EntryId(i), 1)
            /\ ImagesOf(images, EntryId(i)) = ImagesOf(pre[1].files, EntryId(i))

C6_Witness ==
  /\ pc = "done" /\ strategy = "skip"
  /\ Len(log) = 2 /\ log[1].exists /\ log[2].exists
  /\ skipped = 2 /\ imported = 0

\* C7: after an import with 'replace' in which no store or file operation
\* failed for a reason of the environment, a record whose id was in the store
\* and in the archive equals the archive's version in every field (empty
\* notes counting as no notes), and it was deleted before it was inserted.
C7_ReplaceExact ==
  (pc = "done" /\ strategy = "replace" /\ NoFault)
  => \A i \in DOMAIN log :
       (log[i].exists /\ ~LaterSameId(i)) =>
         /\ Stored(receipts, EntryId(i))
         /\ SameButEmptyNotes(StoredEntry(receipts, EntryId(i)), log[i].entry,
                              RecordFields)
         /\ log[i].ops \in {<< "delete", "insert" >>, << "delete", "saveImage", "insert" >>}

\* C8 as the specification states it: after an import with 'merge', a record
\* whose id was in the store and in the archive equals the archive's version
\* in every field, createdAt and updatedAt included, by an update without a
\* delete.
C8_MergeExact ==
  (pc = "done" /\ strategy = "merge")
  => \A i \in DOMAIN log :
       (log[i].exists /\ log[i].outcome = "imported" /\ ~LaterSameId(i)) =>
         /\ Stored(receipts, EntryId(i))
         /\ SameIn(StoredEntry(receipts, EntryId(i)), log[i].entry, RecordFields)
         /\ log[i].ops \in {<< "update" >>, << "saveImage", "update" >>}

\* C8: after an import with 'merge', a record whose id was in the store and
\* whose archive entry was counted as imported equals the archive's version in
\* every field except createdAt, which stays as it was in the store, and
\* updatedAt, which is the time of the import; it was written by one update
\* and never deleted.
C8_MergeUpdates ==
  (pc = "done" /\ strategy = "merge")
  => \A i \in DOMAIN log :
       (log[i].exists /\ log[i].outcome = "imported" /\ ~LaterSameId(i)) =>
         /\ Stored(receipts, EntryId(i))
         /\ SameIn(StoredEntry(receipts, EntryId(i)), log[i].entry,
                   RecordFields \ {KeyCreatedAt, KeyUpdatedAt})
         /\ RowWithId(receipts, EntryId(i), 1)[1].createdAt =
              RowWithId(pre[1].table, EntryId(i), 1)[1].createdAt
         /\ RowWithId(receipts, EntryId(i), 1)[1].updatedAt \in NowValues
         /\ log[i].ops \in {<< "update" >>, << "saveImage", "update" >>}

C8_Witness ==
  /\ pc = "done" /\ strategy = "merge"
  /\ \E i \in DOMAIN log :
       /\ log[i].exists /\ log[i].outcome = "imported" /\ ~LaterSameId(i)
       /\ Prop(log[i].entry, KeyStoreName) #
            Prop(StoredEntry(pre[1].table, EntryId(i)), KeyStoreName)
       /\ Prop(log[i].entry, KeyCreatedAt) #
            Prop(StoredEntry(pre[1].table, EntryId(i)), KeyCreatedAt)

\* C9: an entry whose id the store did not have when the import started is
\* handled the same under every strategy: it is never skipped, deleted or
\* updated; if it is counted as imported it was written by one insert and the
\* store holds it.
C9_NewIsInserted ==
  pc # "idle" =>
    /\ imported = Count("imported")
    /\ \A i \in DOMAIN log :
         ~log[i].exists =>
           /\ log[i].outcome # "skipped"
           /\ \A k \in DOMAIN log[i].ops : log[i].ops[k] \in {"saveImage", "insert"}
           /\ log[i].outcome = "imported" =>
                /\ log[i].ops \in {<< "insert" >>, << "saveImage", "insert" >>}
                /\ Stored(receipts, EntryId(i))

C9_Witness ==
  /\ pc = "done" /\ strategy = "merge" /\ imported = 2
  /\ \A i \in DOMAIN log : ~log[i].exists /\ log[i].outcome = "imported"

\* C10: a failed attachment copy or store write for one entry is caught: it
\* adds one string to errors and 1 to skipped, the entries after it are still
\* processed, and importData returns a result.
C10_FailureIsolated ==
  /\ pc # "idle" =>
       /\ Len(errors) = Count("failed")
       /\ skipped = Count("failed") + Count("skipped")
       /\ imported = Count("imported")
  /\ pc = "done" =>
       /\ Len(log) = Len(entries)
       /\ result = << [success |-> TRUE, imported |-> imported, skipped |-> skipped,
                       errors |-> errors] >>
  /\ (pc = "failed" /\ log # << >>) =>
       \/ log[Len(log)].outcome = "aborted"
       \/ idx > Len(entries)

C10_Witness ==
  /\ pc = "done" /\ Len(log) = 2
  /\ log[1].outcome = "failed" /\ log[1].fault
  /\ log[2].outcome = "imported"
  /\ Len(errors) = 1 /\ skipped = 1 /\ imported = 1

\* entry i of the archive had no file in the staged images directory
NoStagedImage(i) ==
  \/ zipFile.images = << >>
  \/ MatchingFiles(zipFile.images[1], Prop(log[i].entry, KeyId)) = {}

\* C11: an entry whose attachment file is missing from the staged images is
\* a failed entry: it is counted as skipped and not as imported, and it has
\* one string in the error list.
C11_MissingAttachmentFails ==
  (pc = "done" /\ NoFault)
  => /\ \A i \in DOMAIN log :
          (log[i].outcome # "skipped" /\ NoStagedImage(i)) => log[i].outcome = "failed"
     /\ Len(errors) = Count("failed")

AllStaged == {"metadata.enc", "salt.txt", "images"}

\* C14: when exportData threw, no file that the call created is in the output
\* location; a file is there only if metadata, salt and attachments were all
\* staged and the compression succeeded.
C14_NoPartialArchive ==
  exportLog # << >>
  => /\ thrown # << >> => exportOut = << >>
     /\ exportOut # << >> => (exportLog[1].staged = AllStaged /\ exportOut[1].complete)

\* the error of the empty store as line 26 constructs it
NothingToExport ==
  AppError("No receipts to export", "EXPORT_CORRUPTED_DATA", FALSE,
           "You have no receipts to export")

\* C15: exportData called on a store without records throws the "nothing to
\* export" error itself, not a generic export failure, has staged no
\* metadata, salt or attachment, and has created no archive file.
C15_EmptyExportRejected ==
  (exportLog # << >> /\ exportLog[1].empty)
  => /\ thrown = << NothingToExport >>
     /\ exportLog[1].staged = {}
     /\ exportOut = << >>

\* exportData was called after the user had deleted the last receipt
C15_Witness ==
  /\ exportLog # << >> /\ exportLog[1].empty
  /\ receipts = << >> /\ images = {}
  /\ thrown # << >> /\ thrown[1].userMessage = "You have no receipts to export"

\* C16: at every point of an import, between any two of its store calls
\* (stated here for imports in which no store or file operation fails), every
\* record the store held when importData was called is in the store.
C16_NoRecordAbsent ==
  (pc \in {"loop", "image", "save", "done", "failed"} /\ pre # << >> /\ NoFault)
  => \A id \in RowIds(pre[1].table) : Stored(receipts, id)

KeyCalls == keyLog.calls

\* a deleteItemAsync ran between the clock values a and b
DeletedBetween(a, b) == \E t \in keyLog.deletes : a <= t /\ t <= b

\* C17: when a call of getEncryptionKey (resp. getKeySalt) has returned, every
\* call of the same method that starts later, with no deletion in between,
\* returns the same value and writes nothing to the secure store.
C17_KeyStable ==
  \A i \in DOMAIN KeyCalls, j \in DOMAIN KeyCalls :
    ( /\ KeyCalls[i].op \in {"getEncryptionKey", "getKeySalt"}
      /\ KeyCalls[j].op = KeyCalls[i].op
      /\ KeyCalls[i].end < KeyCalls[j].start
      /\ ~DeletedBetween(KeyCalls[i].start, KeyCalls[j].end) )
    => (KeyCalls[j].ret = KeyCalls[i].ret /\ ~KeyCalls[j].wrote)

KeyWrites == keyLog.writes

\* a write to the secure store between the clock values a and b
WrittenBetween(a, b) ==
  \E w \in DOMAIN KeyWrites : a <= KeyWrites[w].at /\ KeyWrites[w].at <= b

\* C18: once deleteAllKeys has returned and until a get writes, neither key
\* nor salt is stored and hasKeys returns false; the next getEncryptionKey /
\* getKeySalt generates a value never stored before; and no write of a get
\* ever replaces a value that is stored.
C18_KeyReset ==
  /\ \A d \in DOMAIN KeyCalls :
        KeyCalls[d].op = "deleteAllKeys"
        => /\ ~WrittenBetween(KeyCalls[d].start, keyLog.clock)
              => secureStore = EmptySecureStore
           /\ \A h \in DOMAIN KeyCalls :
                ( /\ KeyCalls[h].op = "hasKeys"
                  /\ KeyCalls[d].end < KeyCalls[h].start
                  /\ ~WrittenBetween(KeyCalls[d].start, KeyCalls[h].end) )
                => KeyCalls[h].ret = << FALSE >>
           /\ \A g \in DOMAIN KeyCalls :
                ( /\ KeyCalls[g].op \in {"getEncryptionKey", "getKeySalt"}
                  /\ KeyCalls[d].end < KeyCalls[g].start
                  /\ ~WrittenBetween(KeyCalls[d].start, KeyCalls[g].end - 1) )
                => /\ KeyCalls[g].wrote
                   /\ KeyCalls[g].ret # << 0 >>
                   /\ \A w \in DOMAIN KeyWrites :
                        KeyWrites[w].value = KeyCalls[g].ret[1]
                        => KeyWrites[w].at = KeyCalls[g].end
  /\ \A w \in DOMAIN KeyWrites : KeyWrites[w].replaced = << >>

\* the metadata text exportData serializes for the store zipFile came from
ExportedText(now) == Stringify(ExportMetadata(origin[1].table, now), 2, 0)

\* the variables of exportData and importData
TransferVars == << pc, importVars, thrown, tempDir, exportVars, zipFile, origin >>

\* C19: a step of exportData or importData leaves the secure store, the calls
\* of SecureKeyManager in progress and the record of its calls unchanged (it
\* makes no call of SecureKeyManager), and the archive a successful
\* exportData leaves decrypts, with the user's password and the salt of the
\* archive alone, to the bytes of the metadata text.
C19_TrustDomains ==
  [][ /\ TransferVars' # TransferVars => UNCHANGED keyVars
      /\ (exportLog' # exportLog /\ thrown' = << >>)
         => /\ zipFile'.salt = << SaltAt(8) >>
            /\ decryptDataWithPassword(zipFile'.metadata[1], origin'[1].password,
                                       zipFile'.salt[1])
               = BinaryBytes(Stringify(ExportMetadata(receipts, 8), 2, 0)) ]_vars

\* an export and an import both ran to their end on a device whose key was
\* generated meanwhile
C19_Witness ==
  /\ origin # << >> /\ pc = "done"
  /\ secureStore[ENCRYPTION_KEY] = << 1 >>

\* C20: the archive of a successful exportData holds both metadata.enc and
\* salt.txt, and metadata.enc is the metadata text encrypted with the key
\* derived from the password and the content of salt.txt.
C20_SaltTravelsWithCiphertext ==
  origin # << >>
  => /\ zipFile.readable
     /\ zipFile.salt # << >> /\ zipFile.metadata # << >>
     /\ \E now \in NowValues :
          zipFile.metadata[1] =
            ToBase64(xorEncrypt(ExportedText(now),
                                deriveKey(origin[1].password, zipFile.salt[1])))

\* exportData returned an archive
C20_Witness ==
  /\ origin # << >> /\ exportLog # << >> /\ thrown = << >>
  /\ exportOut = << [complete |-> TRUE] >>
  /\ zipFile.salt # << >> /\ zipFile.metadata # << >>

ParseOrValidateMessages ==
  {"Invalid backup file: corrupted metadata", "Invalid backup file: invalid structure",
   "TypeError: cannot read 'receipts' of null"}

\* C22: for the ciphertext and salt of any archive and any password,
\* decryptDataWithPassword returns a string, one code unit per byte of the
\* ciphertext; an import that got as far as decrypting and then threw, threw
\* an error of parsing or validating the metadata, never 'Decryption failed'.
C22_WrongKeyIsSilent ==
  (pc \in {"loop", "failed"} /\ decryptCalls = 1)
  => LET text == decryptDataWithPassword(zipFile.metadata[1], password, zipFile.salt[1])
     IN  /\ text \in Seq(0..255)
         /\ Len(text) = Len(FromBase64(zipFile.metadata[1]))
         /\ pc = "failed"
            => /\ thrown[1].message # "Decryption failed"
               /\ thrown[1].userMessage \in ParseOrValidateMessages

\* an archive that one password opens was imported with the other one, and
\* the import threw
C22_Witness ==
  /\ pc = "failed" /\ decryptCalls = 1
  /\ password = Pw2
  /\ zipFile = BackupAD
  /\ thrown[1].userMessage = "Invalid backup file: corrupted metadata"

\* the record writes (saveReceipt, updateReceipt) attempted for entry i
Writes(i) == {k \in DOMAIN log[i].ops : log[i].ops[k] \in {"insert", "update"}}

\* C23: when importData has returned or thrown after decoding the list (stated
\* here for imports in which no store or file operation fails), every entry
\* of the list was processed once and ended as skipped, imported (by an
\* insert or an update) or failed, with at most one record write attempted.
C23_EveryRecordTerminal ==
  (pc \in {"done", "failed"} /\ entries # << >> /\ NoFault)
  => /\ Len(log) = Len(entries)
     /\ \A i \in DOMAIN log :
          /\ log[i].entry = entries[i]
          /\ log[i].outcome \in {"skipped", "imported", "failed"}
          /\ Cardinality(Writes(i)) <= 1

\* the contents of the staged files named by an id plus an extension
StagedData(id) ==
  IF zipFile.images = << >> THEN {}
  ELSE {f.data : f \in {g \in zipFile.images[1] :
                           \E ext \in {ExtJpg, ExtJpeg, ExtPng, ExtGif, ExtWebp} :
                              g.name = id \o ext}}

\* C24: after an import, the attachment the store holds for an imported entry
\* for which an image was copied is the staged file named by that entry's id,
\* also when the id is part of the name of another staged file.
C24_AttachmentById ==
  pc = "done"
  => \A i \in DOMAIN log :
       ( /\ log[i].outcome = "imported" /\ ~LaterSameId(i)
         /\ \E k \in DOMAIN log[i].ops : log[i].ops[k] = "saveImage" )
       => ImageData(images, EntryId(i)) \subseteq StagedData(EntryId(i))

\* C25: after importData returned (stated here for imports in which no store
\* or file operation fails), the attachment reference of every record it
\* counted as imported is the path of a file in the attachment storage.
C25_ReferenceResolves ==
  (pc = "done" /\ NoFault)
  => \A i \in DOMAIN log :
       (log[i].outcome = "imported" /\ ~LaterSameId(i))
       => RowWithId(receipts, EntryId(i), 1)[1].imageUri \in Paths(images)

\* the callers whose operation under a key is executing
Running(key) == {c \in LockCallers : lockCall[c] = << key >>}

\* at event j the operation started at event i had not settled
Unsettled(i, j) ==
  /\ lockLog[i].kind = "start"
  /\ \A m \in (i + 1)..(j - 1) :
       ~(/\ lockLog[m].kind \in {"return", "throw"}
         /\ lockLog[m].caller = lockLog[i].caller
         /\ lockLog[m].key = lockLog[i].key)

\* the key of event j was held when the event happened
HeldAt(j) == \E i \in 1..(j - 1) : lockLog[i].key = lockLog[j].key /\ Unsettled(i, j)

\* C26: for every key at most one operation started through withLock is
\* executing; the key is locked exactly while one is; a withLock call returned
\* null exactly when the key was held, and started its operation otherwise,
\* also after the earlier operation threw.
C26_MutualExclusion ==
  /\ \A key \in LockKeys :
       /\ Cardinality(Running(key)) <= 1
       /\ isLocked(locks, key) <=> Running(key) # {}
  /\ \A j \in DOMAIN lockLog :
       /\ lockLog[j].kind = "null" => HeldAt(j)
       /\ lockLog[j].kind = "start" => ~HeldAt(j)

\* a withLock call returned null while an operation was running, that
\* operation threw, and a later withLock on the same key ran
C26_Witness ==
  \E i \in DOMAIN lockLog, j \in DOMAIN lockLog, k \in DOMAIN lockLog,
     l \in DOMAIN lockLog :
    /\ i < j /\ j < k /\ k < l
    /\ lockLog[i].kind = "start" /\ lockLog[j].kind = "null"
    /\ lockLog[k].kind = "throw" /\ lockLog[l].kind = "start"
    /\ lockLog[j].key = lockLog[i].key /\ lockLog[k].key = lockLog[i].key
    /\ lockLog[l].key = lockLog[i].key
    /\ lockLog[k].caller = lockLog[i].caller /\ lockLog[l].caller = lockLog[j].caller

\* C27: when importData returns, imported + skipped is the number of entries
\* of the decoded list, imported counts the entries that were written, and the
\* error list has one entry per failed record, so it is no longer than skipped.
C27_CountConservation ==
  pc = "done"
  => /\ result[1].imported + result[1].skipped = Len(entries)
     /\ result[1].imported = Count("imported")
     /\ result[1].skipped = Count("skipped") + Count("failed")
     /\ Len(result[1].errors) = Count("failed")
     /\ Len(result[1].errors) <= result[1].skipped

\* an import of an archive that repeats an identifier returned with a record
\* imported and a record failed
C27_Witness ==
  /\ pc = "done"
  /\ \E i \in DOMAIN log : LaterSameId(i)
  /\ Count("failed") >= 1
  /\ Count("imported") >= 1

\* C28: a record counted as failed leaves the store as it was before the
\* record was processed; stated here for an import that returned with every
\* entry failed or skipped and no store or file operation failing: the
\* records and the attachments are those the store held when importData was
\* called.
C28_FailedLeavesNoTrace ==
  ( /\ pc = "done" /\ NoFault
    /\ Count("failed") >= 1
    /\ \A i \in DOMAIN log : log[i].outcome \in {"failed", "skipped"} )
  => /\ receipts = pre[1].table
     /\ images = pre[1].files

\* the calls i and j were in progress at the same time
Overlap(i, j) ==
  KeyCalls[i].start < KeyCalls[j].end /\ KeyCalls[j].start < KeyCalls[i].end

\* nothing was stored under the item when the calls i and j started: with no
\* deletion so far, a write after both starts found the item absent
AbsentAtStart(item, i, j) ==
  /\ keyLog.deletes = {}
  /\ \E w \in DOMAIN KeyWrites :
       /\ KeyWrites[w].item = item
       /\ KeyWrites[w].replaced = << >>
       /\ KeyWrites[w].at > KeyCalls[i].start
       /\ KeyWrites[w].at > KeyCalls[j].start

\* C29: when two calls of getEncryptionKey (resp. getKeySalt) overlapped while
\* nothing was stored, both returned the same value and that value is the one
\* in the secure store.
C29_FirstRunOverlap ==
  \A i \in DOMAIN KeyCalls, j \in DOMAIN KeyCalls :
    ( /\ i # j
      /\ KeyCalls[i].op \in {"getEncryptionKey", "getKeySalt"}
      /\ KeyCalls[j].op = KeyCalls[i].op
      /\ Overlap(i, j)
      /\ AbsentAtStart(ItemOf(KeyCalls[i].op), i, j) )
    => /\ KeyCalls[i].ret = KeyCalls[j].ret
       /\ getStoredKey(secureStore, ItemOf(KeyCalls[i].op)) = KeyCalls[i].ret

\* the attachment files of a receipt, whatever their extension
AttachmentsOf(files, id) ==
  {f \in files : \E ext \in SourceExtensions : f.path = imageDir \o id \o ext}

\* C30: a getImage that follows a saveImage of the same receipt returns the
\* path saveImage returned; after the last call, a deleteImage, no attachment
\* file of the receipt remains and getImage returns null; and the images an
\* export stages cover every receipt that has an attachment file.
C30_AttachmentStoreConsistent ==
  /\ \A k \in 1..(Len(imageLog) - 1) :
       ( /\ imageLog[k].op = "saveImage" /\ imageLog[k + 1].op = "getImage"
         /\ imageLog[k + 1].id = imageLog[k].id )
       => imageLog[k + 1].ret = imageLog[k].ret
  /\ (imageLog # << >> /\ imageLog[Len(imageLog)].op = "deleteImage")
     => /\ AttachmentsOf(images, imageLog[Len(imageLog)].id) = {}
        /\ getImage(images, imageLog[Len(imageLog)].id) = << >>
  /\ imageLog # << >>
     => \A i \in DOMAIN receipts :
          AttachmentsOf(images, receipts[i].id) # {}
          => \E f \in ExportImages(receipts, images) :
               StartsWith(f.name, receipts[i].id \o << 46 >>)

=========================================================================
